---- MODULE Spec2Model ----
(***************************************************************************)
(* DexWallet: the routes of the router modules of src/ (Blockstream BTC,   *)
(* Tatum BTC, EVM, Solana, and the two definitions of the Cardano router)  *)
(* and the pure helpers they use, as one state machine per request.  The   *)
(* sends come first, then the wallet, balance and health routes.           *)
(* A state is one request in flight: the                                   *)
(* request's fields, the handler's locals, the provider calls issued so    *)
(* far, and the response.  A handler suspends only at its awaits, so each  *)
(* provider reply is an action; the synchronous stretch of the BTC handler *)
(* between the last fetch and the broadcast is cut into its statements     *)
(* (fund, build, sign each input, finalize) and the program counter forces *)
(* their order.                                                            *)
(*                                                                         *)
(* Numbers.  Amounts and fee rates arrive as JSON numbers; a decimal is    *)
(* written as a fraction [num, den] of the chain's base unit.  The program *)
(* computes with doubles: btcToSats (Math.floor(Number(btc) * 1e8)) takes  *)
(* the double nearest to the decimal, rounds the product to a double and   *)
(* floors it, which for 0.00000029 gives 28.  Only finite numeric amounts  *)
(* are drawn.                                                              *)
(***************************************************************************)
EXTENDS Integers, Sequences, FiniteSets, TLC

VARIABLES
    module,         \* the objects bound at module level, which every request sees
    other,          \* the locals of a second request, suspended at an await
    interleaved,    \* while a request runs again alone: the locals it (own) and the
                    \* other request (beside) ended with when they ran together
    drawn,          \* what the providers and the libraries have given the handler, in order
    chain,          \* the router that serves the request
    op,             \* the route of the request: "send", "create", "import", ...
    req,            \* req.params and req.body
    pc,             \* the handler's position
    calls,          \* provider calls issued so far, in order
    replies,        \* the outcomes of the calls answered so far: "ok" or "fail"
    signatures,     \* signatures produced locally so far
    resp,           \* the response sent, or NoResp
    utxos,          \* BTC: const utxos; Cardano: utxoRes.data
    rate,           \* BTC: const rate
    amountSats,     \* BTC: const amountSats
    chosen,         \* BTC: selectUtxosGreedy(...).chosen
    sum,            \* BTC: selectUtxosGreedy(...).sum
    fee,            \* BTC: const fee
    psbt,           \* BTC: const psbt (inputs, outputs, signed inputs, finalized)
    sender,         \* Solana: const sender (the decoded key pair)
    lamports,       \* Solana: const lamports
    balanceWei,     \* EVM: const balanceWei
    feeData,        \* EVM: const feeData
    estimatedGas,   \* EVM: const estimatedGas
    gasCost,        \* EVM: const gasCost
    valueWei,       \* EVM: let valueWei
    tokenDecimals,  \* EVM token routes: const dec / const decimals
    amountLovelace, \* Cardano: const amountLovelace
    totalInput,     \* Cardano: let totalInput
    txInputs        \* Cardano: the inputs given to txBuilder.add_input

vars == <<module, other, interleaved, drawn,
          chain, op, req, pc, calls, replies, signatures, resp,
          utxos, rate, amountSats, chosen, sum, fee, psbt,
          sender, lamports,
          balanceWei, feeData, estimatedGas, gasCost, valueWei, tokenDecimals,
          amountLovelace, totalInput, txInputs>>

btcVars == <<utxos, rate, amountSats, chosen, sum, fee, psbt>>
solVars == <<sender, lamports>>
evmVars == <<balanceWei, feeData, estimatedGas, gasCost, valueWei, tokenDecimals>>
adaVars == <<amountLovelace, totalInput, txInputs>>

(***************************************************************************)
(* Bounds of the model.                                                    *)
(***************************************************************************)
MaxUtxos == 3
\* The longest UTXO reply while two requests are in flight.
PairMaxUtxos == 1

(***************************************************************************)
(* Program constants.                                                      *)
(***************************************************************************)
VBYTE_PER_INPUT == 68
VBYTE_PER_OUTPUT == 31
TX_OVERHEAD_VBYTES == 10
SelectionBuffer == 1000
FallbackFeeRate == 10
ChangeOutputs == 2

(***************************************************************************)
(* Fractions.                                                               *)
(***************************************************************************)
Frac(n, d) == [num |-> n, den |-> d]
Max(a, b) == IF a >= b THEN a ELSE b

(***************************************************************************)
(* JavaScript's Number: IEEE-754 binary64, for the positive normal values   *)
(* an amount or a rate can take.  A natural number of any size is its       *)
(* sequence of limbs in base 2^15, lowest first, without high zeros; a      *)
(* double is [m, e], the value m * 2^e with m of at most 53 bits.           *)
(***************************************************************************)
MantissaBits == 53
LimbBits == 15
Base == 2^LimbBits

RECURSIVE Big(_)
Big(n) == IF n = 0 THEN <<>> ELSE <<n % Base>> \o Big(n \div Base)

RECURSIVE BigValue(_)
BigValue(b) == IF b = <<>> THEN 0 ELSE Head(b) + Base * BigValue(Tail(b))

RECURSIVE Trim(_)
Trim(b) ==
    IF b = <<>> THEN <<>>
    ELSE IF b[Len(b)] = 0 THEN Trim(SubSeq(b, 1, Len(b) - 1)) ELSE b

Limb0(b) == IF b = <<>> THEN 0 ELSE Head(b)
Rest(b) == IF b = <<>> THEN <<>> ELSE Tail(b)

RECURSIVE AddCarry(_, _, _)
AddCarry(a, b, c) ==
    IF a = <<>> /\ b = <<>> THEN (IF c = 0 THEN <<>> ELSE <<c>>)
    ELSE LET s == Limb0(a) + Limb0(b) + c
         IN  <<s % Base>> \o AddCarry(Rest(a), Rest(b), s \div Base)
BigAdd(a, b) == AddCarry(a, b, 0)

RECURSIVE SubBorrow(_, _, _)
SubBorrow(a, b, c) ==
    IF a = <<>> THEN <<>>
    ELSE LET d == Head(a) - Limb0(b) - c
         IN  <<d % Base>> \o SubBorrow(Tail(a), Rest(b), IF d < 0 THEN 1 ELSE 0)
\* a - b for a >= b
BigSub(a, b) == Trim(SubBorrow(a, b, 0))

RECURSIVE LessFrom(_, _, _)
LessFrom(a, b, i) ==
    IF i = 0 THEN FALSE
    ELSE IF a[i] # b[i] THEN a[i] < b[i]
    ELSE LessFrom(a, b, i - 1)
BigLess(a, b) == IF Len(a) # Len(b) THEN Len(a) < Len(b) ELSE LessFrom(a, b, Len(a))

\* a * k for a limb k
RECURSIVE MulLimb(_, _, _)
MulLimb(a, k, c) ==
    IF a = <<>> THEN (IF c = 0 THEN <<>> ELSE <<c>>)
    ELSE LET p == Head(a) * k + c
         IN  <<p % Base>> \o MulLimb(Tail(a), k, p \div Base)

RECURSIVE BigMul(_, _)
BigMul(a, b) ==
    IF a = <<>> \/ b = <<>> THEN <<>>
    ELSE BigAdd(Trim(MulLimb(b, Head(a), 0)),
                LET hi == BigMul(Tail(a), b) IN IF hi = <<>> THEN <<>> ELSE <<0>> \o hi)

\* a * 2^k
Shl(a, k) ==
    IF a = <<>> THEN <<>>
    ELSE [i \in 1..(k \div LimbBits) |-> 0] \o Trim(MulLimb(a, 2^(k % LimbBits), 0))

\* a div k for a limb k > 0, from the top limb down
RECURSIVE DivLimb(_, _, _, _)
DivLimb(a, k, i, r) ==
    IF i = 0 THEN <<>>
    ELSE LET x == r * Base + a[i]
         IN  DivLimb(a, k, i - 1, x % k) \o <<x \div k>>

\* a div 2^k
Shr(a, k) ==
    IF k \div LimbBits >= Len(a) THEN <<>>
    ELSE LET hi == SubSeq(a, (k \div LimbBits) + 1, Len(a))
         IN  Trim(DivLimb(hi, 2^(k % LimbBits), Len(hi), 0))

\* a mod 2^k is not 0
Sticky(a, k) ==
    \/ \E i \in 1..(k \div LimbBits) : i <= Len(a) /\ a[i] # 0
    \/ /\ (k \div LimbBits) < Len(a)
       /\ a[(k \div LimbBits) + 1] % (2^(k % LimbBits)) # 0

\* bit k of a, the lowest being bit 1
BitAt(a, k) ==
    IF (k - 1) \div LimbBits >= Len(a) THEN 0
    ELSE (a[((k - 1) \div LimbBits) + 1] \div (2^((k - 1) % LimbBits))) % 2

RECURSIVE LimbLen(_)
LimbLen(x) == IF x = 0 THEN 0 ELSE 1 + LimbLen(x \div 2)
BitLen(a) == IF a = <<>> THEN 0 ELSE LimbBits * (Len(a) - 1) + LimbLen(a[Len(a)])

\* The quotient of s.r by d when it has at most i + 1 bits, added to s.q, and
\* the rest.
RECURSIVE DivFrom(_, _, _)
DivFrom(s, d, i) ==
    IF i < 0 THEN s
    ELSE LET di == Shl(d, i)
         IN  IF BigLess(s.r, di)
             THEN DivFrom(s, d, i - 1)
             ELSE DivFrom([q |-> BigAdd(s.q, Shl(<<1>>, i)), r |-> BigSub(s.r, di)], d, i - 1)

\* q rounded up when the rest is above a half, or is a half and q is odd.
RoundHalfEven(q, above, half) ==
    IF above \/ (half /\ Limb0(q) % 2 = 1) THEN BigAdd(q, <<1>>) ELSE q

\* The double nearest to n / d (n, d > 0): n / (d * 2^e) is brought into
\* [2^52, 2^53) and rounded to a whole number, ties to even.
ToDouble(n, d) ==
    LET e  == BitLen(n) - BitLen(d) - (MantissaBits - 1)
        n1 == IF e < 0 THEN Shl(n, 0 - e) ELSE n
        d1 == IF e > 0 THEN Shl(d, e) ELSE d
        low == BigLess(n1, Shl(d1, MantissaBits - 1))
        n2 == IF low THEN Shl(n1, 1) ELSE n1
        e2 == IF low THEN e - 1 ELSE e
        qr == DivFrom([q |-> <<>>, r |-> n2], d1, MantissaBits - 1)
        r2 == Shl(qr.r, 1)
    IN  [m |-> RoundHalfEven(qr.q, BigLess(d1, r2), r2 = d1), e |-> e2]

\* The double nearest to p * 2^e.
Rounded(p, e) ==
    LET t == BitLen(p) - MantissaBits
    IN  IF t <= 0 THEN [m |-> p, e |-> e]
        ELSE [m |-> RoundHalfEven(Shr(p, t),
                                  BitAt(p, t) = 1 /\ Sticky(p, t - 1),
                                  BitAt(p, t) = 1 /\ ~Sticky(p, t - 1)),
              e |-> e + t]

\* The double nearest to the product of a double and a whole number.
TimesInt(x, k) == Rounded(BigMul(x.m, k), x.e)

\* x - y for doubles x >= y >= 0
Minus(x, y) ==
    LET lo == IF x.e <= y.e THEN x.e ELSE y.e
    IN  Rounded(BigSub(Shl(x.m, x.e - lo), Shl(y.m, y.e - lo)), lo)

\* Math.floor and Math.ceil of a positive double
FloorOf(x) == IF x.e >= 0 THEN BigValue(Shl(x.m, x.e)) ELSE BigValue(Shr(x.m, 0 - x.e))
CeilOf(x) == FloorOf(x) + (IF x.e < 0 /\ Sticky(x.m, 0 - x.e) THEN 1 ELSE 0)

\* The whole number nearest to x * k, a tie upwards: the digits toFixed prints.
NearestOfProduct(x, k) ==
    LET p == BigMul(x.m, k)
    IN  IF x.e >= 0 THEN BigValue(Shl(p, x.e))
        ELSE BigValue(Shr(BigAdd(Shl(p, 1), Shl(<<1>>, 0 - x.e)), 1 - x.e))

\* Math.round of a positive double: floor(x + 1/2)
RoundOf(x) ==
    IF x.e >= 0 THEN BigValue(Shl(x.m, x.e))
    ELSE BigValue(Shr(BigAdd(x.m, Shl(<<1>>, (0 - x.e) - 1)), 0 - x.e))

\* The number n/d (n >= 0, d > 0) as the double that JSON.parse or Number gives.
Zero == [m |-> <<>>, e |-> 0]
Number(n, d) == IF n = 0 THEN Zero ELSE ToDouble(Big(n), Big(d))

\* Math.floor(Number(amount) * unit) for the amount of num/den base units,
\* unit = 10^k base units to the main unit: the amount is the double nearest
\* to num / (den * unit), the product is rounded to a double, then floored.
FloorTimesUnit(num, den, unit) ==
    IF num = 0 THEN 0
    ELSE IF num > 0
    THEN FloorOf(TimesInt(ToDouble(Big(num), BigMul(Big(den), Big(unit))), Big(unit)))
    ELSE 0 - CeilOf(TimesInt(ToDouble(Big(0 - num), BigMul(Big(den), Big(unit))), Big(unit)))

(***************************************************************************)
(* Responses.                                                              *)
(***************************************************************************)
\* The body of a response: the address, the mnemonic, the private key as text
\* and the private key as an array of numbers; "none" and the empty array
\* stand for a field the response does not have.  A balance route answers with
\* the balance in base units (and the BTC route with its confirmed part); the
\* field in the main unit is the quotient of that number by the unit.  The EVM
\* balance routes send the main unit only, as the exact decimal text of the
\* base units (formatEther(bal), formatUnits(raw, dec)): balance holds the base
\* units that text stands for, and the token route, whose JSON names the owner
\* and no address, leaves address at "none".
NoBody == [address |-> "none", mnemonic |-> "none", privateKey |-> "none",
           secretKeyArray |-> <<>>,
           hasBalance |-> FALSE, balance |-> 0, confirmed |-> 0]
NoResp == [status |-> 0, error |-> "none", body |-> NoBody]
Reply(st, err) == [status |-> st, error |-> err, body |-> NoBody]
\* res.json({...}) of a wallet route
ReplyWallet(b) == [status |-> 200, error |-> "none", body |-> b]
\* res.json({...}) of a balance route
ReplyBalance(a, n, c) ==
    [status |-> 200, error |-> "none",
     body |-> [NoBody EXCEPT !.address = a, !.hasBalance = TRUE, !.balance = n,
                             !.confirmed = c]]

(***************************************************************************)
(* btc-server.mjs: helpers.                                                *)
(***************************************************************************)
\* const btcToSats = (btc) => Math.floor(Number(btc) * 1e8)
SATS_PER_BTC == 100000000
btcToSats(btc) == FloorTimesUnit(btc.num, btc.den, SATS_PER_BTC)

estimateTxVsize(inputs, outputs) ==
    inputs * VBYTE_PER_INPUT + outputs * VBYTE_PER_OUTPUT + TX_OVERHEAD_VBYTES

\* [...utxos].sort((a, b) => a.value - b.value): a stable sort.
RECURSIVE InsertByValue(_, _)
InsertByValue(u, s) ==
    IF s = <<>> THEN <<u>>
    ELSE IF Head(s).value <= u.value
         THEN <<Head(s)>> \o InsertByValue(u, Tail(s))
         ELSE <<u>> \o s

RECURSIVE SortByValue(_)
SortByValue(s) ==
    IF s = <<>> THEN <<>>
    ELSE InsertByValue(s[Len(s)], SortByValue(SubSeq(s, 1, Len(s) - 1)))

\* for (const u of sorted) { chosen.push(u); sum += u.value; if (sum >= target) break; }
RECURSIVE GreedyLoop(_, _, _, _)
GreedyLoop(sorted, acc, total, target) ==
    IF sorted = <<>> THEN [chosen |-> acc, sum |-> total]
    ELSE LET c2 == Append(acc, Head(sorted))
             s2 == total + Head(sorted).value
         IN  IF s2 >= target
             THEN [chosen |-> c2, sum |-> s2]
             ELSE GreedyLoop(Tail(sorted), c2, s2, target)

\* Mutants of selectUtxosGreedy: the sort forgotten; a shortfall made an empty result.
selectUtxosGreedy_NoSort(list, target) ==
    GreedyLoop(list, <<>>, 0, target)

selectUtxosGreedy_EmptyOnShortfall(list, target) ==
    LET r == GreedyLoop(SortByValue(list), <<>>, 0, target)
    IN  IF r.sum < target THEN [chosen |-> <<>>, sum |-> 0] ELSE r

selectUtxosGreedy(list, target) ==
    GreedyLoop(SortByValue(list), <<>>, 0, target)

\* Mutant of fetchFeeRate: the rounded rate without its floor of 1.
fetchFeeRate_NoFloor(reply) ==
    IF reply.kind = "fail" THEN FallbackFeeRate
    ELSE IF reply.kind = "missing" \/ reply.num = 0 THEN FallbackFeeRate
    ELSE RoundOf(Number(reply.num, reply.den))

\* fetchFeeRate: Math.max(Math.round(r.data['1'] || 10), 1), and 10 when the
\* request throws.  A reply is "fail", "missing" (no '1' entry) or a fraction.
fetchFeeRate(reply) ==
    IF reply.kind = "fail" THEN FallbackFeeRate
    ELSE IF reply.kind = "missing" \/ reply.num = 0 THEN Max(FallbackFeeRate, 1)
    ELSE Max(RoundOf(Number(reply.num, reply.den)), 1)

\* bitcoin.ECPair.fromWIF(privateKeyWIF, NETWORK) throws on a malformed WIF.
WifValid(k) == k \in {"kA", "kB"}
\* bitcoin.payments.p2wpkh({ pubkey: keyPair.publicKey, network }).address
P2wpkhAddress(k) == IF k = "kA" THEN "A" ELSE "B"

\* Mutant of Falsy: nothing is falsy.
Falsy_Never(x) == FALSE

\* !x for a JSON number or an absent field
Falsy(x) == ~x.given \/ x.num = 0

(***************************************************************************)
(* Inputs.                                                                 *)
(***************************************************************************)
Absent == [given |-> FALSE, num |-> 0, den |-> 1]
Num(n, d) == [given |-> TRUE, num |-> n, den |-> d]

UtxoValues == {100, 200, 1000, 1428, 2000, 5000}

\* A provider reply: UTXO i of the list is {txid/vout: i, value}.
UtxoLists ==
    UNION { { [i \in 1..n |-> [id |-> i, value |-> f[i]]] : f \in [1..n -> UtxoValues] }
            : n \in 0..MaxUtxos }

\* The UTXO fetch answers with a list or fails.
UtxoReplies ==
    { [ok |-> TRUE, data |-> l] : l \in UtxoLists } \cup {[ok |-> FALSE, data |-> <<>>]}

\* 0.00000029 BTC is an amount whose product with 1e8 falls short of 29.
BtcAmounts == {Absent, Num(0, 1), Num(1, 2), Num(29, 1), Num(2500, 1), Num(7201, 2),
               Num(0 - 3000, 1), Num(9000, 1)}
BtcFeeRates == {Absent, Num(0, 1), Num(10, 1), Num(9, 8)}
FeeReplies == {[kind |-> "fail", num |-> 0, den |-> 1],
               [kind |-> "missing", num |-> 0, den |-> 1],
               [kind |-> "ok", num |-> 0, den |-> 1],
               [kind |-> "ok", num |-> 2, den |-> 5],
               [kind |-> "ok", num |-> 5, den |-> 2]}

NoKeypair == [ok |-> FALSE, key |-> "none", error |-> "none"]

\* feeData: a quote is a bigint or null
NoFeeData == [hasMaxFee |-> FALSE, maxFeePerGas |-> 0, hasGasPrice |-> FALSE, gasPrice |-> 0]

EmptyPsbt == [inputs |-> <<>>, outputs |-> <<>>, signed |-> {}, finalized |-> FALSE]

BtcRequests ==
    [from : {"A", "B"}, privateKeyWIF : {"none", "bad", "kA"}, to : {"none", "T"},
     amount : BtcAmounts, feeRate : BtcFeeRates]

\* The request runs alone.
NoFrame == [chain |-> "none"]

\* A request just received: no local set, no call issued, no response.
Idle ==
    /\ pc = "start"
    /\ drawn = <<>>
    /\ calls = <<>>
    /\ replies = <<>>
    /\ signatures = 0
    /\ resp = NoResp
    /\ utxos = <<>>
    /\ rate = Frac(0, 1)
    /\ amountSats = 0
    /\ chosen = <<>>
    /\ sum = 0
    /\ fee = 0
    /\ psbt = EmptyPsbt
    /\ sender = NoKeypair
    /\ lamports = 0
    /\ balanceWei = 0
    /\ feeData = NoFeeData
    /\ estimatedGas = 0
    /\ gasCost = 0
    /\ valueWei = 0
    /\ tokenDecimals = 0
    /\ amountLovelace = 0
    /\ totalInput = 0
    /\ txInputs = <<>>

InitBtc ==
    /\ chain = "btc"
    /\ op = "send"
    /\ req \in BtcRequests
    /\ Idle

(***************************************************************************)
(* What a handler is given.  Every provider reply and every value a        *)
(* library generates (a mnemonic, a random key) is written to `drawn`,     *)
(* with the step that received it.                                         *)
(***************************************************************************)
Given(by, x) == [by |-> by, val |-> x]

Draw(by, x) == drawn' = Append(drawn, Given(by, x))

(***************************************************************************)
(* btc-server.mjs: router.post('/:from/send').                             *)
(***************************************************************************)
Finish(r) ==
    /\ resp' = r
    /\ pc' = "done"

\* Lines 248-265: validation, key, signer check, then the UTXO fetch.
BtcSend ==
    /\ chain = "btc" /\ op = "send" /\ pc = "start"
    /\ IF req.privateKeyWIF = "none" \/ req.to = "none" \/ Falsy(req.amount)
       THEN Finish(Reply(400, "privateKeyWIF, to, amount required")) /\ UNCHANGED calls
       ELSE IF ~WifValid(req.privateKeyWIF)
       THEN Finish(Reply(500, "invalid WIF")) /\ UNCHANGED calls
       ELSE IF P2wpkhAddress(req.privateKeyWIF) # req.from
       THEN Finish(Reply(400, "privateKey mismatch")) /\ UNCHANGED calls
       ELSE /\ calls' = Append(calls, "fetchUtxos")
            /\ pc' = "awaitUtxos"
            /\ UNCHANGED resp
    /\ UNCHANGED <<module, other, interleaved, chain, op, req, replies, drawn, signatures, btcVars, solVars, evmVars, adaVars>>

\* Lines 265-270: the UTXO reply; the fee-rate lookup when the caller gave none.
BtcUtxosReply ==
    /\ chain = "btc" /\ pc = "awaitUtxos"
    /\ \E reply \in UtxoReplies :
         /\ replies' = Append(replies, IF reply.ok THEN "ok" ELSE "fail")
         /\ Draw("BtcUtxosReply", reply)
         /\ IF ~reply.ok
            THEN Finish(Reply(500, "provider error")) /\ UNCHANGED <<calls, utxos, rate>>
            ELSE IF Len(reply.data) = 0
            THEN Finish(Reply(400, "no utxos available")) /\ UNCHANGED <<calls, utxos, rate>>
            ELSE /\ utxos' = reply.data
                 /\ UNCHANGED resp
                 /\ IF Falsy(req.feeRate)
                    THEN /\ calls' = Append(calls, "fetchFeeRate")
                         /\ pc' = "awaitFeeRate"
                         /\ UNCHANGED rate
                    ELSE /\ rate' = Frac(req.feeRate.num, req.feeRate.den)
                         /\ pc' = "haveRate"
                         /\ UNCHANGED calls
    /\ UNCHANGED <<module, other, interleaved, chain, op, req, signatures, amountSats, chosen, sum, fee, psbt, solVars, evmVars, adaVars>>

\* fetchFeeRate of every reply the fee-rate lookup can get, computed once.
RateOf == [reply \in FeeReplies |-> Frac(fetchFeeRate(reply), 1)]

\* Mutant of BtcFeeRateReply: the rate looked up is kept in a binding of the
\* module, and a later request takes it from there.
BtcFeeRateReply_Memoised ==
    /\ chain = "btc" /\ pc = "awaitFeeRate"
    /\ \E reply \in FeeReplies :
         /\ replies' = Append(replies, IF reply.kind = "fail" THEN "fail" ELSE "ok")
         /\ Draw("BtcFeeRateReply", reply)
         /\ IF "feeRate" \in DOMAIN module
            THEN rate' = module.feeRate /\ UNCHANGED module
            ELSE /\ rate' = RateOf[reply]
                 /\ module' = [k \in DOMAIN module \cup {"feeRate"} |->
                                 IF k = "feeRate" THEN RateOf[reply]
                                 ELSE module[k]]
    /\ pc' = "haveRate"
    /\ UNCHANGED <<other, interleaved, chain, op, req, calls, signatures, resp,
                   utxos, amountSats, chosen, sum, fee, psbt, solVars, evmVars, adaVars>>

\* Line 270 with lines 96-103: the fee-rate reply.
BtcFeeRateReply ==
    /\ chain = "btc" /\ pc = "awaitFeeRate"
    /\ \E reply \in FeeReplies :
         /\ replies' = Append(replies, IF reply.kind = "fail" THEN "fail" ELSE "ok")
         /\ Draw("BtcFeeRateReply", reply)
         /\ rate' = RateOf[reply]
    /\ pc' = "haveRate"
    /\ UNCHANGED <<module, other, interleaved, chain, op, req, calls, signatures, resp,
                   utxos, amountSats, chosen, sum, fee, psbt, solVars, evmVars, adaVars>>

\* Mutant of BtcFee: the fee rounded down.
BtcFee_Floor(nInputs, r) ==
    FloorOf(TimesInt(Number(r.num, r.den), Big(estimateTxVsize(nInputs, ChangeOutputs))))

\* Math.ceil(estimateTxVsize(chosen.length, 2) * rate)
BtcFee(nInputs, r) ==
    CeilOf(TimesInt(Number(r.num, r.den), Big(estimateTxVsize(nInputs, ChangeOutputs))))

\* Mutant of BtcInsufficient: the fee left out of the funds check.
BtcInsufficient_NoFee(total, amt, f) == total < amt

\* if (sum < amountSats + fee) -> 'insufficient funds'
BtcInsufficient(total, amt, f) == total < amt + f

\* btcToSats of every amount a request can carry, computed once.
SatsOf == [a \in BtcAmounts |-> btcToSats(a)]

\* The rates line 270 can give, and the fee of every selection at each.
BtcRates ==
    {Frac(r.num, r.den) : r \in {x \in BtcFeeRates : ~Falsy(x)}}
    \cup {Frac(fetchFeeRate(reply), 1) : reply \in FeeReplies}
FeeOf == [n \in 0..MaxUtxos, r \in BtcRates |-> BtcFee(n, r)]

\* Lines 271-284: amount, selection, fee, funds check.
BtcFund ==
    /\ chain = "btc" /\ pc = "haveRate"
    /\ LET amt == SatsOf[req.amount]
           sel == selectUtxosGreedy(utxos, amt + SelectionBuffer)
           f   == FeeOf[Len(sel.chosen), rate]
       IN  /\ amountSats' = amt
           /\ chosen' = sel.chosen
           /\ sum' = sel.sum
           /\ fee' = f
           /\ IF BtcInsufficient(sel.sum, amt, f)
              THEN Finish(Reply(400, "insufficient funds"))
              ELSE pc' = "feeAdjusted" /\ UNCHANGED resp
    /\ UNCHANGED <<module, other, interleaved, chain, op, req, replies, drawn, calls, signatures, utxos, rate, psbt, solVars, evmVars, adaVars>>

\* psbt.addOutput rejects a value that is not an unsigned integer.
OutputValueOk(v) == v >= 0

\* The outputs of lines 302-306.
BtcOutputs(toAddr, fromAddr, amt, total, f) ==
    << [address |-> toAddr, value |-> amt],
       [address |-> fromAddr, value |-> total - amt - f] >>

\* Lines 286-306: the inputs and the two outputs.
BtcBuild ==
    /\ chain = "btc" /\ pc = "feeAdjusted"
    /\ LET outs == BtcOutputs(req.to, P2wpkhAddress(req.privateKeyWIF),
                              amountSats, sum, fee)
       IN  IF \A i \in 1..Len(outs) : OutputValueOk(outs[i].value)
           THEN /\ psbt' = [psbt EXCEPT !.inputs = chosen, !.outputs = outs]
                /\ pc' = "signing"
                /\ UNCHANGED resp
           ELSE /\ psbt' = [psbt EXCEPT !.inputs = chosen]
                /\ Finish(Reply(500, "invalid output value"))
    /\ UNCHANGED <<module, other, interleaved, chain, op, req, replies, drawn, calls, signatures, utxos, rate, amountSats, chosen, sum, fee,
                   solVars, evmVars, adaVars>>

\* Line 308: chosen.forEach((_, i) => psbt.signInput(i, keyPair)), one input a step.
BtcSignInput ==
    /\ chain = "btc" /\ pc = "signing"
    /\ Cardinality(psbt.signed) < Len(psbt.inputs)
    /\ psbt' = [psbt EXCEPT !.signed = @ \cup {Cardinality(@) + 1}]
    /\ signatures' = signatures + 1
    /\ UNCHANGED <<module, other, interleaved, chain, op, req, replies, drawn, pc, calls, resp, utxos, rate, amountSats, chosen, sum, fee,
                   solVars, evmVars, adaVars>>

\* Mutant of BtcBroadcast: the transaction goes out whatever has been signed.
BtcBroadcast_Unsigned ==
    /\ chain = "btc" /\ pc = "signing"
    /\ psbt' = [psbt EXCEPT !.finalized = TRUE]
    /\ calls' = Append(calls, "broadcastTx")
    /\ pc' = "awaitBroadcast"
    /\ UNCHANGED <<module, other, interleaved, chain, op, req, replies, drawn, signatures, resp, utxos, rate, amountSats, chosen, sum, fee,
                   solVars, evmVars, adaVars>>

\* Lines 309-313: finalizeAllInputs, extractTransaction().toHex(), broadcastTx.
BtcBroadcast ==
    /\ chain = "btc" /\ pc = "signing"
    /\ Cardinality(psbt.signed) = Len(psbt.inputs)
    /\ psbt' = [psbt EXCEPT !.finalized = TRUE]
    /\ calls' = Append(calls, "broadcastTx")
    /\ pc' = "awaitBroadcast"
    /\ UNCHANGED <<module, other, interleaved, chain, op, req, replies, drawn, signatures, resp, utxos, rate, amountSats, chosen, sum, fee,
                   solVars, evmVars, adaVars>>

\* Mutant of BtcAfterBroadcast: a failed broadcast is sent again.
BtcAfterBroadcast_Retry(ok) ==
    IF ok
    THEN Finish(Reply(200, "none")) /\ UNCHANGED calls
    ELSE /\ calls' = Append(calls, "broadcastTx")
         /\ UNCHANGED <<pc, resp>>

\* What the handler does with the broadcast's outcome (lines 311-326).
BtcAfterBroadcast(ok) ==
    IF ok
    THEN Finish(Reply(200, "none")) /\ UNCHANGED calls
    ELSE Finish(Reply(500, "provider error")) /\ UNCHANGED calls

BtcBroadcastReply ==
    /\ chain = "btc" /\ pc = "awaitBroadcast"
    /\ \E ok \in BOOLEAN :
         /\ replies' = Append(replies, IF ok THEN "ok" ELSE "fail")
         /\ Draw("BtcBroadcastReply", ok)
         /\ BtcAfterBroadcast(ok)
    /\ UNCHANGED <<module, other, interleaved, chain, op, req, signatures, btcVars, solVars, evmVars, adaVars>>

BtcNext ==
    \/ BtcSend
    \/ BtcUtxosReply
    \/ BtcFeeRateReply
    \/ BtcFund
    \/ BtcBuild
    \/ BtcSignInput
    \/ BtcBroadcast
    \/ BtcBroadcastReply

(***************************************************************************)
(* unnamed/part_000 lines 307-355: router.post("/:from/send"), BTC through *)
(* Tatum.  The private key goes to the provider, which signs and submits.  *)
(***************************************************************************)
TatumRequests ==
    [from : {"A", "B"}, privateKey : {"none", "kA"}, to : {"none", "T"},
     amount : {Absent, Num(0, 1), Num(2500, 1)}]

InitTatum ==
    /\ chain = "tatum"
    /\ op = "send"
    /\ req \in TatumRequests
    /\ Idle

\* Lines 309-338: the field check, then the POST to /bitcoin/transaction.
TatumSend ==
    /\ chain = "tatum" /\ op = "send" /\ pc = "start"
    /\ IF req.from = "none" \/ req.to = "none" \/ Falsy(req.amount)
          \/ req.privateKey = "none"
       THEN Finish(Reply(400, "from, to, amount, privateKey required")) /\ UNCHANGED calls
       ELSE /\ calls' = Append(calls, "tatumTransaction")
            /\ pc' = "awaitTatum"
            /\ UNCHANGED resp
    /\ UNCHANGED <<module, other, interleaved, chain, op, req, replies, drawn, signatures, btcVars, solVars, evmVars, adaVars>>

\* Lines 340-354.
TatumReply ==
    /\ chain = "tatum" /\ pc = "awaitTatum"
    /\ \E ok \in BOOLEAN :
         /\ replies' = Append(replies, IF ok THEN "ok" ELSE "fail")
         /\ Draw("TatumReply", ok)
         /\ IF ok THEN Finish(Reply(200, "none"))
            ELSE Finish(Reply(500, "provider error"))
    /\ UNCHANGED <<module, other, interleaved, chain, op, req, calls, signatures, btcVars, solVars, evmVars, adaVars>>

TatumNext ==
    \/ TatumSend
    \/ TatumReply

(***************************************************************************)
(* solana_server.mjs: keypairFromPrivateKeyInput (lines 45-72).            *)
(*                                                                         *)
(* Byte strings (Uint8Array, Buffer) are sequences of numbers 0..255; a    *)
(* JavaScript array of numbers is a sequence of integers.  A key pair is   *)
(* the record of its publicKey (32 bytes) and its secretKey (64 bytes: the *)
(* seed, then the public key).                                             *)
(*                                                                         *)
(* A key input is described by what the library decoders make of it:       *)
(*   form  "none" (absent/falsy), "array", "string", "other"               *)
(*   arr   the elements of an array input                                  *)
(*   json  JSON.parse(input): the elements of the parsed array, or <<>>    *)
(*         when it throws or does not give an array                        *)
(*   b58   bs58.decode(input): the bytes, or <<>> when it throws           *)
(*   b64   Buffer.from(input, 'base64'): the bytes (<<>>: it throws)       *)
(***************************************************************************)
\* The 32-byte seeds of the two key pairs of the model.
Seed(k) == IF k = "k1" THEN [i \in 1..32 |-> i] ELSE [i \in 1..32 |-> 7 * i + 3]

\* @solana/web3.js getPublicKey(seed), the ed25519 public key of a seed: the
\* curve arithmetic is the library's; here a one-to-one map on 32 bytes.
getPublicKey(seed) == [i \in 1..32 |-> (seed[33 - i] + 101) % 256]

\* Keypair.fromSeed(seed): secretKey is the seed followed by its public key.
fromSeed(seed) ==
    [publicKey |-> getPublicKey(seed), secretKey |-> seed \o getPublicKey(seed)]

\* The byte string of length n cut from key pair k: the seed (32), the secret
\* key (64).  "bad" names bytes that hold no key pair: n zero bytes.
Bytes(n, k) ==
    IF k = "bad" THEN [i \in 1..n |-> 0]
    ELSE SubSeq(fromSeed(Seed(k)).secretKey, 1, n)
NoBytes == Bytes(0, "bad")

KeyOk(k) == [ok |-> TRUE, key |-> k, error |-> "none"]
KeyErr(e) == [ok |-> FALSE, key |-> "none", error |-> e]

\* Number(x) of a JSON number is the number; Uint8Array.from stores each
\* element modulo 256.
Uint8ArrayFrom(a) == [i \in 1..Len(a) |-> a[i] % 256]

\* Keypair.fromSecretKey accepts 64 bytes whose last 32 are the public key of
\* the first 32, else it throws.
FromSecretKeyOk(b) ==
    Len(b) = 64 /\ getPublicKey(SubSeq(b, 1, 32)) = SubSeq(b, 33, 64)

\* Keypair.fromSecretKey(b): the key pair, or the error it throws.
fromSecretKey(b) ==
    IF FromSecretKeyOk(b)
    THEN KeyOk([publicKey |-> SubSeq(b, 33, 64), secretKey |-> b])
    ELSE KeyErr("bad secret key")

\* The base58 attempt (lines 59-63): a key pair, or nothing.
TryBase58(b) ==
    IF Len(b) = 32 THEN KeyOk(fromSeed(b))
    ELSE IF Len(b) = 64 /\ fromSecretKey(b).ok THEN fromSecretKey(b)
    ELSE KeyErr("next")

\* The base64 attempt (lines 65-69).
TryBase64(b) ==
    IF Len(b) = 32 THEN KeyOk(fromSeed(b))
    ELSE IF Len(b) = 64 /\ fromSecretKey(Uint8ArrayFrom(b)).ok
    THEN fromSecretKey(Uint8ArrayFrom(b))
    ELSE KeyErr("next")

\* The JSON attempt (lines 52-57): parsed is the array, a throw is caught.
TryJson(parsed) ==
    IF fromSecretKey(Uint8ArrayFrom(parsed)).ok
    THEN fromSecretKey(Uint8ArrayFrom(parsed))
    ELSE KeyErr("next")

\* Mutant of keypairFromPrivateKeyInput: base64 tried before base58.
keypairFromPrivateKeyInput_Base64First(input) ==
    IF input.form = "none" THEN KeyErr("privateKey required")
    ELSE IF input.form = "array" THEN fromSecretKey(Uint8ArrayFrom(input.arr))
    ELSE IF TryJson(input.json).ok THEN TryJson(input.json)
    ELSE IF TryBase64(input.b64).ok THEN TryBase64(input.b64)
    ELSE IF TryBase58(input.b58).ok THEN TryBase58(input.b58)
    ELSE KeyErr("Unsupported privateKey format")

keypairFromPrivateKeyInput(input) ==
    IF input.form = "none" THEN KeyErr("privateKey required")
    ELSE IF input.form = "array" THEN fromSecretKey(Uint8ArrayFrom(input.arr))
    ELSE IF TryJson(input.json).ok THEN TryJson(input.json)
    ELSE IF TryBase58(input.b58).ok THEN TryBase58(input.b58)
    ELSE IF TryBase64(input.b64).ok THEN TryBase64(input.b64)
    ELSE KeyErr("Unsupported privateKey format")

\* kp.publicKey.toBase58(): the base58 text of the 32 bytes.
PublicKeyBase58(kp) ==
    IF kp.publicKey = getPublicKey(Seed("k1")) THEN "S1"
    ELSE IF kp.publicKey = getPublicKey(Seed("k2")) THEN "S2"
    ELSE "S3"

KeyInput(f, a, j, c, d) == [form |-> f, arr |-> a, json |-> j, b58 |-> c, b64 |-> d]

Base64Outcomes == {Bytes(33, "bad"), Bytes(64, "bad"), Bytes(32, "k2"), Bytes(64, "k2")}

\* The secret key of k1 with 256 added to every element: an array of numbers
\* that are not bytes.
Shifted(b) == [i \in 1..Len(b) |-> b[i] + 256]

\* A JSON array text holds '[' and ',', which base58 rejects; a base58 text is
\* alphanumeric, which JSON.parse never reads as an array.
\* A truthy input that is neither an array nor a text (an object, a number,
\* true): JSON.parse and bs58.decode throw on it; Buffer.from(input, 'base64')
\* throws on a number, on true and on a plain object, reads an array-like
\* object ({length: 32}) as that many bytes and {type: 'Buffer', data: [...]}
\* as the bytes of data.
SolKeyInputs ==
    {KeyInput("none", NoBytes, NoBytes, NoBytes, NoBytes),
     KeyInput("other", NoBytes, NoBytes, NoBytes, NoBytes)}
    \cup { KeyInput("other", NoBytes, NoBytes, NoBytes, d) : d \in Base64Outcomes }
    \cup { KeyInput("array", a, NoBytes, NoBytes, NoBytes) :
             a \in {Bytes(64, "k1"), Bytes(64, "bad"), Bytes(32, "k1"),
                    Shifted(Bytes(64, "k1"))} }
    \cup { KeyInput("string", NoBytes, j, NoBytes, d) :
             j \in {Bytes(64, "k1"), Bytes(64, "bad"), Bytes(3, "bad")},
             d \in Base64Outcomes }
    \cup { KeyInput("string", NoBytes, NoBytes, c, d) :
             c \in {NoBytes, Bytes(31, "bad"), Bytes(64, "bad"),
                    Bytes(32, "k1"), Bytes(64, "k1")},
             d \in Base64Outcomes }

\* 0.000000015 SOL is an amount whose product with 1e9 falls short of 15.
SolAmounts == {Absent, Num(0, 1), Num(1, 2), Num(5, 1), Num(15, 1)}

SolRequests ==
    [from : {"S1", "S2"}, privateKey : SolKeyInputs, to : {"none", "T", "badTo"},
     amount : SolAmounts]

InitSol ==
    /\ chain = "sol"
    /\ op = "send"
    /\ req \in SolRequests
    /\ Idle

(***************************************************************************)
(* solana_server.mjs: router.post('/:from/send') (lines 160-201).          *)
(***************************************************************************)
\* Math.floor(Number(amount) * LAMPORTS_PER_SOL)
LAMPORTS_PER_SOL == 1000000000
ToLamports(a) == FloorTimesUnit(a.num, a.den, LAMPORTS_PER_SOL)
\* ToLamports of every amount a request can carry, computed once.
LamportsOf == [a \in SolAmounts |-> ToLamports(a)]

\* Lines 162-189: fields, key, signer check, transfer, sendAndConfirmTransaction
\* (which signs with [sender] and submits).
SolSend ==
    /\ chain = "sol" /\ op = "send" /\ pc = "start"
    /\ IF req.privateKey.form = "none" \/ req.to = "none" \/ Falsy(req.amount)
       THEN /\ Finish(Reply(400, "privateKey, to, amount required"))
            /\ UNCHANGED <<calls, signatures, sender, lamports>>
       ELSE LET kp == keypairFromPrivateKeyInput(req.privateKey)
            IN  IF ~kp.ok
                THEN /\ Finish(Reply(500, kp.error))
                     /\ UNCHANGED <<calls, signatures, sender, lamports>>
                ELSE IF PublicKeyBase58(kp.key) # req.from
                THEN /\ Finish(Reply(400, "privateKey mismatch"))
                     /\ sender' = kp
                     /\ UNCHANGED <<calls, signatures, lamports>>
                ELSE IF req.to = "badTo"
                THEN /\ Finish(Reply(500, "invalid public key"))
                     /\ sender' = kp
                     /\ lamports' = LamportsOf[req.amount]
                     /\ UNCHANGED <<calls, signatures>>
                ELSE /\ sender' = kp
                     /\ lamports' = LamportsOf[req.amount]
                     /\ signatures' = signatures + 1
                     /\ calls' = Append(calls, "sendAndConfirmTransaction")
                     /\ pc' = "awaitConfirm"
                     /\ UNCHANGED resp
    /\ UNCHANGED <<module, other, interleaved, chain, op, req, replies, drawn, btcVars, evmVars, adaVars>>

\* Lines 191-200.
SolReply ==
    /\ chain = "sol" /\ pc = "awaitConfirm"
    /\ \E ok \in BOOLEAN :
         /\ replies' = Append(replies, IF ok THEN "ok" ELSE "fail")
         /\ Draw("SolReply", ok)
         /\ IF ok THEN Finish(Reply(200, "none"))
            ELSE Finish(Reply(500, "provider error"))
    /\ UNCHANGED <<module, other, interleaved, chain, op, req, calls, signatures, btcVars, solVars, evmVars, adaVars>>

SolNext ==
    \/ SolSend
    \/ SolReply

(***************************************************************************)
(* unnamed/part_000 lines 361-708: the EVM router.                         *)
(***************************************************************************)
ChainNames == {"sonic", "ethereum", "base", "polygon"}

\* CHAINS is an object literal: CHAINS[chain] also finds what it inherits from
\* Object.prototype, and each of these is a function or an object, which is
\* truthy.
ObjectPrototypeKeys ==
    {"constructor", "toString", "toLocaleString", "valueOf", "hasOwnProperty",
     "isPrototypeOf", "propertyIsEnumerable", "__proto__", "__defineGetter__",
     "__defineSetter__", "__lookupGetter__", "__lookupSetter__"}

\* getProvider: CHAINS[chain], 'ethereum' when the field is absent; it throws
\* 'Unsupported chain' when the lookup gives nothing.
ChainOrDefault(c) == IF c = "none" THEN "ethereum" ELSE c
ChainSupported(c) == ChainOrDefault(c) \in module.CHAINS \cup ObjectPrototypeKeys

\* isAddress: a 20-byte hex string, all of one case or with a valid checksum.
isAddress(a) == a \in {"0xAA", "0xaa", "0xBB", "0xbb", "0xCC"}

\* String.prototype.toLowerCase on an address
toLowerCase(a) ==
    IF a = "0xAA" THEN "0xaa"
    ELSE IF a = "0xBB" THEN "0xbb"
    ELSE IF a = "0xCC" THEN "0xcc"
    ELSE a

\* new Wallet(pk, provider) throws on a malformed key; wallet.address is the
\* checksummed address of the key.
WalletKeyValid(k) == k \in {"kA", "kB"}
WalletAddress(k) == IF k = "kA" THEN "0xAA" ELSE "0xBB"

\* Number(amount).toFixed(18) then parseEther: the wei nearest to the double of
\* the amount, a tie away from 0 (1.5e-18 is a double below 3/2 wei: 1 wei).
WEI_PER_ETHER == BigMul(Big(1000000000), Big(1000000000))
ToFixedWei(a) ==
    IF a.num = 0 THEN 0
    ELSE IF a.num > 0
    THEN NearestOfProduct(ToDouble(Big(a.num), BigMul(Big(a.den), WEI_PER_ETHER)), WEI_PER_ETHER)
    ELSE 0 - NearestOfProduct(ToDouble(Big(0 - a.num), BigMul(Big(a.den), WEI_PER_ETHER)),
                              WEI_PER_ETHER)

\* Mutant of IsMax: only the sentinel is a max send.
IsMax_OnlySentinel(a) == a.kind = "max"

\* !amount || amount === 'max'
IsMax(a) == a.kind = "absent" \/ a.kind = "max" \/ (a.kind = "num" /\ a.num = 0)

EvmAmount(k, n, d) == [kind |-> k, num |-> n, den |-> d]

EvmAmounts == {EvmAmount("absent", 0, 1), EvmAmount("max", 0, 1), EvmAmount("num", 0, 1),
               EvmAmount("num", 30, 1), EvmAmount("num", 80, 1), EvmAmount("num", 161, 2),
               EvmAmount("num", 3, 2), EvmAmount("num", 0 - 5, 1)}

\* ToFixedWei of every amount a request can carry, computed once.
WeiOf == [a \in EvmAmounts |-> ToFixedWei(a)]

\* The chain field: absent, in the table, not in it, a key of Object.prototype.
EvmChains == {"none", "ethereum", "bsc", "constructor"}

\* The gasLimit field of the body: absent, or a JSON number.
NoGasLimit == [given |-> FALSE, n |-> 0]
GasLimit(k) == [given |-> TRUE, n |-> k]

EvmRequests ==
    [from : {"0xAA", "0xaa", "0xBB", "bad"}, to : {"0xCC", "none"},
     privateKey : {"none", "bad", "kA"}, chain : EvmChains,
     gasLimit : {NoGasLimit, GasLimit(21000), GasLimit(0)}, amount : EvmAmounts]

BalanceReplies == {[ok |-> FALSE, wei |-> 0], [ok |-> TRUE, wei |-> 0],
                   [ok |-> TRUE, wei |-> 50], [ok |-> TRUE, wei |-> 100]}

FeeDataOf(hm, m, hg, g) ==
    [hasMaxFee |-> hm, maxFeePerGas |-> m, hasGasPrice |-> hg, gasPrice |-> g]

FeeDataReplies ==
    { [ok |-> FALSE, data |-> NoFeeData] }
    \cup { [ok |-> TRUE, data |-> d] :
            d \in {NoFeeData, FeeDataOf(TRUE, 25, TRUE, 10), FeeDataOf(FALSE, 0, TRUE, 10),
                   FeeDataOf(FALSE, 0, TRUE, 60), FeeDataOf(TRUE, 50, FALSE, 0)} }

GasReplies == {[ok |-> FALSE, units |-> 0], [ok |-> TRUE, units |-> 2]}

InitEvm ==
    /\ chain = "evm"
    /\ op = "send"
    /\ req \in EvmRequests
    /\ Idle

\* Lines 518-541: addresses, key, chain, signer check, then getBalance.
EvmSend ==
    /\ chain = "evm" /\ op = "send" /\ pc = "start"
    /\ IF ~isAddress(req.from) \/ ~isAddress(req.to)
       THEN Finish(Reply(400, "invalid address")) /\ UNCHANGED calls
       ELSE IF req.privateKey = "none"
       THEN Finish(Reply(400, "privateKey required")) /\ UNCHANGED calls
       ELSE IF ~ChainSupported(req.chain)
       THEN Finish(Reply(500, "Unsupported chain")) /\ UNCHANGED calls
       ELSE IF ~WalletKeyValid(req.privateKey)
       THEN Finish(Reply(500, "invalid private key")) /\ UNCHANGED calls
       ELSE IF toLowerCase(WalletAddress(req.privateKey)) # toLowerCase(req.from)
       THEN Finish(Reply(400, "privateKey mismatch")) /\ UNCHANGED calls
       ELSE /\ calls' = Append(calls, "getBalance")
            /\ pc' = "awaitBalance"
            /\ UNCHANGED resp
    /\ UNCHANGED <<module, other, interleaved, chain, op, req, replies, drawn, signatures, btcVars, solVars, evmVars, adaVars>>

\* Lines 541-552: the balance reply, then getFeeData.
EvmBalanceReply ==
    /\ chain = "evm" /\ pc = "awaitBalance"
    /\ \E reply \in BalanceReplies :
         /\ replies' = Append(replies, IF reply.ok THEN "ok" ELSE "fail")
         /\ Draw("EvmBalanceReply", reply)
         /\ IF ~reply.ok
            THEN Finish(Reply(500, "provider error")) /\ UNCHANGED <<calls, balanceWei>>
            ELSE /\ balanceWei' = reply.wei
                 /\ IF reply.wei <= 0
                    THEN Finish(Reply(400, "insufficient balance")) /\ UNCHANGED calls
                    ELSE /\ calls' = Append(calls, "getFeeData")
                         /\ pc' = "awaitFeeData"
                         /\ UNCHANGED resp
    /\ UNCHANGED <<module, other, interleaved, chain, op, req, signatures, btcVars, solVars, adaVars,
                   feeData, estimatedGas, gasCost, valueWei, tokenDecimals>>

\* feeData.maxFeePerGas ?? feeData.gasPrice; "null" when both are null.
HasGasPrice(fd) == fd.hasMaxFee \/ fd.hasGasPrice
EffectiveGasPrice(fd) == IF fd.hasMaxFee THEN fd.maxFeePerGas ELSE fd.gasPrice

\* estimatedGas * gasPrice
GasCost(units, fd) == units * EffectiveGasPrice(fd)

\* if (balanceWei <= gasCost) -> 'balance too low for gas'
MaxTooLow(b, g) == b <= g

\* Mutant of MaxValue: the whole balance sent.
MaxValue_Whole(b, g) == b

\* valueWei = balanceWei - gasCost
MaxValue(b, g) == b - g

\* Mutant of ExceedsBalance: the gas cost left out.
ExceedsBalance_NoGas(v, g, b) == v > b

\* if (valueWei + gasCost > balanceWei) -> 'amount + gas exceeds balance'
ExceedsBalance(v, g, b) == v + g > b

\* Lines 564-603 once estimatedGas is a bigint: gas cost, amount, sendTransaction.
\* wallet.sendTransaction is called and awaited with a negative value as well.
EvmResolve(units, fd) ==
    IF ~HasGasPrice(fd)
    THEN \* bigint * null throws a TypeError
         /\ Finish(Reply(500, "TypeError"))
         /\ UNCHANGED <<calls, signatures, gasCost, valueWei>>
    ELSE LET g == GasCost(units, fd)
         IN  /\ gasCost' = g
             /\ IF IsMax(req.amount)
                THEN IF MaxTooLow(balanceWei, g)
                     THEN /\ Finish(Reply(400, "balance too low for gas"))
                          /\ UNCHANGED <<calls, signatures, valueWei>>
                     ELSE /\ valueWei' = MaxValue(balanceWei, g)
                          /\ calls' = Append(calls, "sendTransaction")
                          /\ signatures' = signatures + 1
                          /\ pc' = "awaitSend"
                          /\ UNCHANGED resp
                ELSE LET v == WeiOf[req.amount]
                     IN  /\ valueWei' = v
                         /\ IF ExceedsBalance(v, g, balanceWei)
                            THEN /\ Finish(Reply(400, "amount + gas exceeds balance"))
                                 /\ UNCHANGED <<calls, signatures>>
                            ELSE /\ calls' = Append(calls, "sendTransaction")
                                 \* a negative value cannot be serialized: no signature
                                 /\ signatures' = IF v < 0 THEN signatures ELSE signatures + 1
                                 /\ pc' = "awaitSend"
                                 /\ UNCHANGED resp

\* Lines 560-603 when the body has a gasLimit: estimatedGas is that number.
\* number * bigint throws a TypeError; number * null is 0, and then the
\* subtraction or the sum of a bigint and the number 0 throws, the numeric
\* amount already converted.
EvmResolveGasLimit(fd) ==
    /\ estimatedGas' = req.gasLimit.n
    /\ IF HasGasPrice(fd)
       THEN Finish(Reply(500, "TypeError")) /\ UNCHANGED valueWei
       ELSE IF IsMax(req.amount)
       THEN /\ IF balanceWei <= 0
               THEN Finish(Reply(400, "balance too low for gas"))
               ELSE Finish(Reply(500, "TypeError"))
            /\ UNCHANGED valueWei
       ELSE /\ valueWei' = WeiOf[req.amount]
            /\ Finish(Reply(500, "TypeError"))
    /\ UNCHANGED <<calls, signatures, gasCost>>

\* Lines 552-567: the fee data reply; gasLimit ?? estimateGas.
EvmFeeDataReply ==
    /\ chain = "evm" /\ pc = "awaitFeeData"
    /\ \E reply \in FeeDataReplies :
         /\ replies' = Append(replies, IF reply.ok THEN "ok" ELSE "fail")
         /\ Draw("EvmFeeDataReply", reply)
         /\ IF ~reply.ok
            THEN /\ Finish(Reply(500, "provider error"))
                 /\ UNCHANGED <<calls, signatures, feeData, estimatedGas, gasCost, valueWei>>
            ELSE /\ feeData' = reply.data
                 /\ IF ~req.gasLimit.given
                    THEN /\ calls' = Append(calls, "estimateGas")
                         /\ pc' = "awaitEstimate"
                         /\ UNCHANGED <<resp, signatures, estimatedGas, gasCost, valueWei>>
                    ELSE EvmResolveGasLimit(reply.data)
    /\ UNCHANGED <<module, other, interleaved, chain, op, req, btcVars, solVars, adaVars, balanceWei, tokenDecimals>>

\* Lines 560-603: the gas estimate, then the rest of the handler.
EvmEstimateReply ==
    /\ chain = "evm" /\ pc = "awaitEstimate"
    /\ \E reply \in GasReplies :
         /\ replies' = Append(replies, IF reply.ok THEN "ok" ELSE "fail")
         /\ Draw("EvmEstimateReply", reply)
         /\ IF ~reply.ok
            THEN /\ Finish(Reply(500, "provider error"))
                 /\ UNCHANGED <<calls, signatures, estimatedGas, gasCost, valueWei>>
            ELSE /\ estimatedGas' = reply.units
                 /\ EvmResolve(reply.units, feeData)
    /\ UNCHANGED <<module, other, interleaved, chain, op, req, btcVars, solVars, adaVars, balanceWei, feeData,
                   tokenDecimals>>

\* Lines 597-617.
EvmSendReply ==
    /\ chain = "evm" /\ pc = "awaitSend"
    /\ \E ok \in (IF valueWei < 0 THEN {FALSE} ELSE BOOLEAN) :
         /\ replies' = Append(replies, IF ok THEN "ok" ELSE "fail")
         /\ Draw("EvmSendReply", ok)
         /\ IF ok THEN Finish(Reply(200, "none"))
            ELSE Finish(Reply(500, "provider error"))
    /\ UNCHANGED <<module, other, interleaved, chain, op, req, calls, signatures, btcVars, solVars, evmVars, adaVars>>

EvmNext ==
    \/ EvmSend
    \/ EvmBalanceReply
    \/ EvmFeeDataReply
    \/ EvmEstimateReply
    \/ EvmSendReply

(***************************************************************************)
(* unnamed/part_000: the other routes of the EVM router.                   *)
(***************************************************************************)
\* Wallet.fromPhrase: the key of a valid phrase; wallet.mnemonic.phrase.
PhraseValid(m) == m \in {"mA", "mB"}
PhraseKey(m) == IF m = "mA" THEN "kA" ELSE "kB"
KeyPhrase(k) == IF k = "kA" THEN "mA" ELSE "mB"

WalletBody(a, m, k, b) ==
    [NoBody EXCEPT !.address = a, !.mnemonic = m, !.privateKey = k, !.secretKeyArray = b]

\* decimals().catch(() => 18)
DefaultDecimals == 18

EvmCreateRequests == [chain : EvmChains]
EvmImportRequests == [privateKey : {"none", "bad", "kA"}, chain : EvmChains]
EvmImportMnemonicRequests == [mnemonic : {"none", "bad", "mA"}, chain : EvmChains]
EvmBalanceRequests == [address : {"0xAA", "bad"}, chain : EvmChains]
\* The chain of a token route is a path parameter: never absent.
EvmTokenBalanceRequests ==
    [chain : EvmChains \ {"none"}, tokenAddress : {"0xCC", "bad"}, owner : {"0xAA", "bad"}]
EvmTokenTransferRequests ==
    [chain : EvmChains \ {"none"}, tokenAddress : {"0xCC", "bad"},
     privateKey : {"none", "bad", "kA"}, to : {"none", "0xBB", "bad"},
     amount : {"none", "1", "x"}]

InitEvmWallet ==
    /\ chain = "evm"
    /\ \/ op = "create" /\ req \in EvmCreateRequests
       \/ op = "import" /\ req \in EvmImportRequests
       \/ op = "importMnemonic" /\ req \in EvmImportMnemonicRequests
       \/ op = "balance" /\ req \in EvmBalanceRequests
       \/ op = "tokenBalance" /\ req \in EvmTokenBalanceRequests
       \/ op = "tokenTransfer" /\ req \in EvmTokenTransferRequests
    /\ Idle

\* Lines 439-450: Wallet.createRandom(); the body's chain field is not read.
EvmCreate ==
    /\ chain = "evm" /\ op = "create" /\ pc = "start"
    /\ \E k \in {"kA", "kB"} :
         /\ Draw("EvmCreate", k)
         /\ Finish(ReplyWallet(WalletBody(WalletAddress(k), KeyPhrase(k), k, NoBody.secretKeyArray)))
    /\ UNCHANGED <<module, other, interleaved, chain, op, req, replies, calls, signatures,
                   btcVars, solVars, evmVars, adaVars>>

\* Lines 453-469: the response holds the address and the chain.
EvmImport ==
    /\ chain = "evm" /\ op = "import" /\ pc = "start"
    /\ IF req.privateKey = "none"
       THEN Finish(Reply(400, "privateKey required"))
       ELSE IF ~ChainSupported(req.chain)
       THEN Finish(Reply(500, "Unsupported chain"))
       ELSE IF ~WalletKeyValid(req.privateKey)
       THEN Finish(Reply(500, "invalid private key"))
       ELSE Finish(ReplyWallet(WalletBody(WalletAddress(req.privateKey), "none", "none",
                                          NoBody.secretKeyArray)))
    /\ UNCHANGED <<module, other, interleaved, chain, op, req, replies, drawn, calls, signatures,
                   btcVars, solVars, evmVars, adaVars>>

\* Lines 472-490: the response holds the address, the private key and the chain.
EvmImportMnemonic ==
    /\ chain = "evm" /\ op = "importMnemonic" /\ pc = "start"
    /\ IF req.mnemonic = "none"
       THEN Finish(Reply(400, "mnemonic required"))
       ELSE IF ~ChainSupported(req.chain)
       THEN Finish(Reply(500, "Unsupported chain"))
       ELSE IF ~PhraseValid(req.mnemonic)
       THEN Finish(Reply(500, "invalid mnemonic"))
       ELSE Finish(ReplyWallet(WalletBody(WalletAddress(PhraseKey(req.mnemonic)), "none",
                                          PhraseKey(req.mnemonic), NoBody.secretKeyArray)))
    /\ UNCHANGED <<module, other, interleaved, chain, op, req, replies, drawn, calls, signatures,
                   btcVars, solVars, evmVars, adaVars>>

\* Lines 493-503: the address, the provider, then getBalance.
EvmBalance ==
    /\ chain = "evm" /\ op = "balance" /\ pc = "start"
    /\ IF ~isAddress(req.address)
       THEN Finish(Reply(400, "invalid address")) /\ UNCHANGED calls
       ELSE IF ~ChainSupported(req.chain)
       THEN Finish(Reply(500, "Unsupported chain")) /\ UNCHANGED calls
       ELSE /\ calls' = Append(calls, "getBalance")
            /\ pc' = "awaitGetBalance"
            /\ UNCHANGED resp
    /\ UNCHANGED <<module, other, interleaved, chain, op, req, replies, drawn, signatures, btcVars, solVars, evmVars, adaVars>>

\* Lines 503-512.
EvmGetBalanceReply ==
    /\ chain = "evm" /\ op = "balance" /\ pc = "awaitGetBalance"
    /\ \E reply \in BalanceReplies :
         /\ replies' = Append(replies, IF reply.ok THEN "ok" ELSE "fail")
         /\ Draw("EvmGetBalanceReply", reply)
         /\ IF reply.ok
            THEN /\ Finish(ReplyBalance(req.address, reply.wei, 0))
                 /\ balanceWei' = reply.wei
            ELSE Finish(Reply(500, "provider error")) /\ UNCHANGED balanceWei
    /\ UNCHANGED <<module, other, interleaved, chain, op, req, calls, signatures, btcVars, solVars, adaVars,
                   feeData, estimatedGas, gasCost, valueWei, tokenDecimals>>

\* Lines 635-644: the addresses, the provider, then token.balanceOf(owner).
EvmTokenBalance ==
    /\ chain = "evm" /\ op = "tokenBalance" /\ pc = "start"
    /\ IF ~isAddress(req.tokenAddress) \/ ~isAddress(req.owner)
       THEN Finish(Reply(400, "invalid address")) /\ UNCHANGED calls
       ELSE IF ~ChainSupported(req.chain)
       THEN Finish(Reply(500, "Unsupported chain")) /\ UNCHANGED calls
       ELSE /\ calls' = Append(calls, "balanceOf")
            /\ pc' = "awaitBalanceOf"
            /\ UNCHANGED resp
    /\ UNCHANGED <<module, other, interleaved, chain, op, req, replies, drawn, signatures, btcVars, solVars, evmVars, adaVars>>

\* Lines 644-645: raw, then token.decimals().
EvmBalanceOfReply ==
    /\ chain = "evm" /\ op = "tokenBalance" /\ pc = "awaitBalanceOf"
    /\ \E reply \in BalanceReplies :
         /\ replies' = Append(replies, IF reply.ok THEN "ok" ELSE "fail")
         /\ Draw("EvmBalanceOfReply", reply)
         /\ IF reply.ok
            THEN /\ balanceWei' = reply.wei
                 /\ calls' = Append(calls, "decimals")
                 /\ pc' = "awaitDecimals"
                 /\ UNCHANGED resp
            ELSE /\ Finish(Reply(500, "provider error"))
                 /\ UNCHANGED <<balanceWei, calls>>
    /\ UNCHANGED <<module, other, interleaved, chain, op, req, signatures, btcVars, solVars, adaVars,
                   feeData, estimatedGas, gasCost, valueWei, tokenDecimals>>

DecimalsReplies == {[ok |-> FALSE, dec |-> 0], [ok |-> TRUE, dec |-> 6], [ok |-> TRUE, dec |-> 18]}

\* token.decimals().catch(() => 18): what dec is after the reply.
DecimalsOrDefault(reply) == IF reply.ok THEN reply.dec ELSE DefaultDecimals

\* Lines 645-652: dec, then the response with formatUnits(raw, dec).
EvmDecimalsReply ==
    /\ chain = "evm" /\ op = "tokenBalance" /\ pc = "awaitDecimals"
    /\ \E reply \in DecimalsReplies :
         /\ replies' = Append(replies, IF reply.ok THEN "ok" ELSE "fail")
         /\ Draw("EvmDecimalsReply", reply)
         /\ tokenDecimals' = DecimalsOrDefault(reply)
         /\ Finish(ReplyBalance(NoBody.address, balanceWei, 0))
    /\ UNCHANGED <<module, other, interleaved, chain, op, req, calls, signatures, btcVars, solVars, adaVars,
                   balanceWei, feeData, estimatedGas, gasCost, valueWei>>

\* Lines 662-682: the fields, the addresses, the wallet, then token.decimals().
EvmTokenTransfer ==
    /\ chain = "evm" /\ op = "tokenTransfer" /\ pc = "start"
    /\ IF req.privateKey = "none" \/ req.to = "none" \/ req.amount = "none"
       THEN Finish(Reply(400, "privateKey, to, amount required")) /\ UNCHANGED calls
       ELSE IF ~isAddress(req.to) \/ ~isAddress(req.tokenAddress)
       THEN Finish(Reply(400, "invalid address")) /\ UNCHANGED calls
       ELSE IF ~ChainSupported(req.chain)
       THEN Finish(Reply(500, "Unsupported chain")) /\ UNCHANGED calls
       ELSE IF ~WalletKeyValid(req.privateKey)
       THEN Finish(Reply(500, "invalid private key")) /\ UNCHANGED calls
       ELSE /\ calls' = Append(calls, "decimals")
            /\ pc' = "awaitTokenDecimals"
            /\ UNCHANGED resp
    /\ UNCHANGED <<module, other, interleaved, chain, op, req, replies, drawn, signatures, btcVars, solVars, evmVars, adaVars>>

\* Lines 682-685: decimals, parseUnits (it throws on a text that is no decimal
\* number), then token.transfer, which signs and submits.
EvmTokenDecimalsReply ==
    /\ chain = "evm" /\ op = "tokenTransfer" /\ pc = "awaitTokenDecimals"
    /\ \E reply \in DecimalsReplies :
         /\ replies' = Append(replies, IF reply.ok THEN "ok" ELSE "fail")
         /\ Draw("EvmTokenDecimalsReply", reply)
         /\ IF ~reply.ok
            THEN /\ Finish(Reply(500, "provider error"))
                 /\ UNCHANGED <<calls, signatures, tokenDecimals>>
            ELSE /\ tokenDecimals' = reply.dec
                 /\ IF req.amount = "x"
                    THEN /\ Finish(Reply(500, "invalid FixedNumber string value"))
                         /\ UNCHANGED <<calls, signatures>>
                    ELSE /\ calls' = Append(calls, "transfer")
                         /\ signatures' = signatures + 1
                         /\ pc' = "awaitTransfer"
                         /\ UNCHANGED resp
    /\ UNCHANGED <<module, other, interleaved, chain, op, req, btcVars, solVars, adaVars,
                   balanceWei, feeData, estimatedGas, gasCost, valueWei>>

\* Lines 685-704.
EvmTransferReply ==
    /\ chain = "evm" /\ op = "tokenTransfer" /\ pc = "awaitTransfer"
    /\ \E ok \in BOOLEAN :
         /\ replies' = Append(replies, IF ok THEN "ok" ELSE "fail")
         /\ Draw("EvmTransferReply", ok)
         /\ IF ok THEN Finish(Reply(200, "none"))
            ELSE Finish(Reply(500, "provider error"))
    /\ UNCHANGED <<module, other, interleaved, chain, op, req, calls, signatures, btcVars, solVars, evmVars, adaVars>>

EvmWalletNext ==
    \/ EvmCreate
    \/ EvmImport
    \/ EvmImportMnemonic
    \/ EvmBalance
    \/ EvmGetBalanceReply
    \/ EvmTokenBalance
    \/ EvmBalanceOfReply
    \/ EvmDecimalsReply
    \/ EvmTokenTransfer
    \/ EvmTokenDecimalsReply
    \/ EvmTransferReply

(***************************************************************************)
(* cardano-server.mjs: router.post("/send"), the handler of lines 175-321  *)
(* (chain "ada") and the one of lines 471-582 (chain "ada2").              *)
(***************************************************************************)
MinAmountLovelace == 1000000
InputBufferAda == 3000000
InputBufferAda2 == 2000000
LinearFeeConstant == 155381

InputBuffer(c) == IF c = "ada" THEN InputBufferAda ELSE InputBufferAda2

\* Math.floor(Number(amount) * 1_000_000)
LOVELACE_PER_ADA == 1000000
ToLovelace(a) == FloorTimesUnit(a.num, a.den, LOVELACE_PER_ADA)

\* bip39.validateMnemonic
MnemonicValid(m) == m \in {"mA", "mB"}

\* Address.from_bech32(to) throws unless the text is a bech32 address.
Bech32Valid(a) == a = "addr1T"
StartsWithAddr(a) == a \in {"addr1T", "addr_bad"}

\* An entry of the UTXO reply: {tx_hash/tx_index: id, amount: [...]}, where
\* lovelace tells whether the amount list has a "lovelace" unit.
AdaUtxo(i, has, v) == [id |-> i, lovelace |-> has, value |-> v]

AdaEntries == {[lovelace |-> FALSE, value |-> 0], [lovelace |-> TRUE, value |-> 1500000],
               [lovelace |-> TRUE, value |-> 6000000]}

AdaUtxoLists ==
    UNION { { [i \in 1..n |-> AdaUtxo(i, f[i].lovelace, f[i].value)] :
                f \in [1..n -> AdaEntries] } : n \in 0..MaxUtxos }

AdaUtxoReplies ==
    { [ok |-> TRUE, data |-> l] : l \in AdaUtxoLists } \cup {[ok |-> FALSE, data |-> <<>>]}

\* 1.000001 ADA is an amount whose product with 1e6 falls short of 1000001.
AdaAmounts == {Absent, Num(1, 2), Num(500000, 1), Num(1000000, 1), Num(1000001, 1),
               Num(2500000, 1)}

\* ToLovelace of every amount a request can carry, computed once.
LovelaceOf == [a \in AdaAmounts |-> ToLovelace(a)]

AdaRequests ==
    [mnemonic : {"none", "bad", "mA"}, to : {"none", "addr1T", "addr_bad", "xT"},
     amount : AdaAmounts]

InitAda ==
    /\ chain \in {"ada", "ada2"}
    /\ op = "send"
    /\ req \in AdaRequests
    /\ Idle

\* Lines 177-205 and 473-487: fields, amount, keys, then the UTXO fetch.
AdaSend ==
    /\ chain \in {"ada", "ada2"} /\ op = "send" /\ pc = "start"
    /\ IF req.mnemonic = "none" \/ req.to = "none" \/ Falsy(req.amount)
       THEN /\ Finish(Reply(400, "mnemonic, to, amount required"))
            /\ UNCHANGED <<calls, amountLovelace>>
       ELSE IF chain = "ada" /\ ~StartsWithAddr(req.to)
       THEN /\ Finish(Reply(400, "Invalid Cardano address"))
            /\ UNCHANGED <<calls, amountLovelace>>
       ELSE /\ amountLovelace' = LovelaceOf[req.amount]
            /\ IF chain = "ada" /\ LovelaceOf[req.amount] < MinAmountLovelace
               THEN Finish(Reply(400, "Minimum 1 ADA required")) /\ UNCHANGED calls
               ELSE IF ~MnemonicValid(req.mnemonic)
               THEN Finish(Reply(500, "Invalid mnemonic")) /\ UNCHANGED calls
               ELSE /\ calls' = Append(calls, "fetchUtxos")
                    /\ pc' = "awaitUtxos"
                    /\ UNCHANGED resp
    /\ UNCHANGED <<module, other, interleaved, chain, op, req, replies, drawn, signatures, btcVars, solVars, evmVars, totalInput, txInputs>>

\* The input loops of lines 243-267 and 512-534, over the reply in its order:
\* the first handler skips an entry without lovelace, the second adds it with
\* value 0; both stop once totalInput >= amountLovelace + buffer.
RECURSIVE AdaInputLoop(_, _, _, _, _)
AdaInputLoop(list, acc, total, target, skip) ==
    IF list = <<>> THEN [inputs |-> acc, totalInput |-> total]
    ELSE LET u == Head(list)
         IN  IF skip /\ ~u.lovelace
             THEN AdaInputLoop(Tail(list), acc, total, target, skip)
             ELSE LET v  == IF u.lovelace THEN u.value ELSE 0
                      a2 == Append(acc, [id |-> u.id, value |-> v])
                      t2 == total + v
                  IN  IF t2 >= target
                      THEN [inputs |-> a2, totalInput |-> t2]
                      ELSE AdaInputLoop(Tail(list), a2, t2, target, skip)

\* Mutant of AdaSelect: the list is gone through twice.
AdaSelect_Twice(c, list, amt) ==
    AdaInputLoop(list \o list, <<>>, 0, amt + InputBuffer(c), c = "ada")

AdaSelect(c, list, amt) ==
    AdaInputLoop(list, <<>>, 0, amt + InputBuffer(c), c = "ada")

\* add_change_if_needed and build throw when the inputs cannot pay the output
\* and the fee, which is at least the constant of the linear fee.
AdaCanBuild(total, amt) == total >= amt + LinearFeeConstant

\* Lines 207-306 and 489-569: the UTXO reply, then the draft in the order of
\* the code: the output (add_output, lines 233 and 503), the inputs, the
\* change, build, the witness, then the submit.  add_output is the first call
\* on the draft: when the library rejects the output (its minimum for an
\* output) the request ends before any input is added and totalInput is never
\* set.  Whether the library accepts the output, and whether it accepts a
\* draft that can pay its fee (size), is the library's choice.
AdaUtxosReply ==
    /\ chain \in {"ada", "ada2"} /\ pc = "awaitUtxos"
    /\ \E reply \in AdaUtxoReplies, outputAccepted \in BOOLEAN, draftAccepted \in BOOLEAN :
         /\ replies' = Append(replies, IF reply.ok THEN "ok" ELSE "fail")
         /\ Draw("AdaUtxosReply", <<reply, outputAccepted, draftAccepted>>)
         /\ utxos' = IF reply.ok THEN reply.data ELSE utxos
         /\ IF ~reply.ok
            THEN /\ Finish(Reply(500, "provider error"))
                 /\ UNCHANGED <<calls, signatures, totalInput, txInputs>>
            ELSE IF Len(reply.data) = 0
            THEN /\ Finish(Reply(400, "No UTXO available"))
                 /\ UNCHANGED <<calls, signatures, totalInput, txInputs>>
            ELSE IF ~Bech32Valid(req.to)
            THEN /\ Finish(Reply(500, "invalid bech32"))
                 /\ UNCHANGED <<calls, signatures, totalInput, txInputs>>
            ELSE IF ~outputAccepted
            THEN /\ Finish(Reply(500, "build failed"))
                 /\ UNCHANGED <<calls, signatures, totalInput, txInputs>>
            ELSE LET sel == AdaSelect(chain, reply.data, amountLovelace)
                 IN  /\ totalInput' = sel.totalInput
                     /\ txInputs' = sel.inputs
                     /\ IF AdaCanBuild(sel.totalInput, amountLovelace) /\ draftAccepted
                        THEN /\ signatures' = signatures + 1
                             /\ calls' = Append(calls, "submit")
                             /\ pc' = "awaitSubmit"
                             /\ UNCHANGED resp
                        ELSE /\ Finish(Reply(500, "build failed"))
                             /\ UNCHANGED <<calls, signatures>>
    /\ UNCHANGED <<module, other, interleaved, chain, op, req, rate, amountSats, chosen, sum, fee, psbt,
                   solVars, evmVars, amountLovelace>>

\* Lines 308-320 and 571-581.
AdaSubmitReply ==
    /\ chain \in {"ada", "ada2"} /\ pc = "awaitSubmit"
    /\ \E ok \in BOOLEAN :
         /\ replies' = Append(replies, IF ok THEN "ok" ELSE "fail")
         /\ Draw("AdaSubmitReply", ok)
         /\ IF ok THEN Finish(Reply(200, "none"))
            ELSE Finish(Reply(500, "provider error"))
    /\ UNCHANGED <<module, other, interleaved, chain, op, req, calls, signatures, btcVars, solVars, evmVars, adaVars>>

AdaNext ==
    \/ AdaSend
    \/ AdaUtxosReply
    \/ AdaSubmitReply

(***************************************************************************)
(* The wallet routes of the BTC, Solana and Cardano routers: create,       *)
(* import by key, import by mnemonic.  They call no provider.              *)
(***************************************************************************)
\* The words field of a create request; absent, it takes the route's default.
NoWords == [given |-> FALSE, n |-> 0]
Words(k) == [given |-> TRUE, n |-> k]
WordsOrDefault(w, d) == IF w.given THEN w.n ELSE d

WordsInputs == {NoWords, Words(12), Words(24), Words(15)}

\* bip39.generateMnemonic: any valid mnemonic.
GeneratedMnemonics == {"mA", "mB"}

\* btc-server.mjs deriveFromMnemonic(...).child.toWIF()
deriveFromMnemonic(m) == IF m = "mA" THEN "kA" ELSE "kB"

\* solana_server.mjs keypairFromMnemonic
keypairFromMnemonic(m) == fromSeed(Seed(IF m = "mA" THEN "k1" ELSE "k2"))

\* cardano-server.mjs deriveKeysFromMnemonic(...).address
deriveKeysFromMnemonic(m) == IF m = "mA" THEN "addr1A" ELSE "addr1B"

\* bs58.encode of the bytes of a secret key
Base58Encode(b) ==
    IF b = Bytes(64, "k1") THEN "b58-k1"
    ELSE IF b = Bytes(64, "k2") THEN "b58-k2"
    ELSE "b58-other"

\* Mutant of exportKeypair: the array holds the 32-byte seed only.
exportKeypair_SeedOnly(kp) ==
    [publicKey |-> PublicKeyBase58(kp), privateKey |-> Base58Encode(kp.secretKey),
     secretKeyArray |-> SubSeq(kp.secretKey, 1, 32)]

\* solana_server.mjs lines 74-80; Array.from of the bytes is the array of the
\* same numbers.
exportKeypair(kp) ==
    [publicKey |-> PublicKeyBase58(kp), privateKey |-> Base58Encode(kp.secretKey),
     secretKeyArray |-> kp.secretKey]

\* res.json(exportKeypair(kp)), with the mnemonic when the route adds it
SolWalletBody(m, e) == WalletBody(e.publicKey, m, e.privateKey, e.secretKeyArray)

BtcImportRequests == [privateKeyWIF : {"none", "bad", "kA"}]
MnemonicRequests == [mnemonic : {"none", "bad", "mA"}]
SolImportRequests == [privateKey : SolKeyInputs]
CreateRequests == [words : WordsInputs]

InitWallet ==
    /\ \/ /\ chain \in {"btc", "sol", "ada", "ada2"}
          /\ op = "create" /\ req \in CreateRequests
       \/ /\ chain = "btc" /\ op = "import" /\ req \in BtcImportRequests
       \/ /\ chain = "sol" /\ op = "import" /\ req \in SolImportRequests
       \/ /\ chain \in {"btc", "sol"} /\ op = "importMnemonic" /\ req \in MnemonicRequests
       \/ /\ chain \in {"ada", "ada2"} /\ op = "import" /\ req \in MnemonicRequests
    /\ Idle

\* btc-server.mjs lines 150-177.
BtcCreate ==
    /\ chain = "btc" /\ op = "create" /\ pc = "start"
    /\ IF WordsOrDefault(req.words, 12) \notin {12, 24}
       THEN Finish(Reply(400, "words must be 12 or 24")) /\ UNCHANGED drawn
       ELSE \E m \in GeneratedMnemonics :
              /\ Draw("BtcCreate", m)
              /\ Finish(ReplyWallet(WalletBody(P2wpkhAddress(deriveFromMnemonic(m)), m,
                                            deriveFromMnemonic(m), NoBytes)))
    /\ UNCHANGED <<module, other, interleaved, chain, op, req, replies, calls, signatures,
                   btcVars, solVars, evmVars, adaVars>>

\* btc-server.mjs lines 180-201.
BtcImport ==
    /\ chain = "btc" /\ op = "import" /\ pc = "start"
    /\ IF req.privateKeyWIF = "none"
       THEN Finish(Reply(400, "privateKeyWIF required"))
       ELSE IF ~WifValid(req.privateKeyWIF)
       THEN Finish(Reply(500, "invalid WIF"))
       ELSE Finish(ReplyWallet(WalletBody(P2wpkhAddress(req.privateKeyWIF), "none",
                                          req.privateKeyWIF, NoBytes)))
    /\ UNCHANGED <<module, other, interleaved, chain, op, req, replies, drawn, calls, signatures,
                   btcVars, solVars, evmVars, adaVars>>

\* btc-server.mjs lines 204-227.
BtcImportMnemonic ==
    /\ chain = "btc" /\ op = "importMnemonic" /\ pc = "start"
    /\ IF req.mnemonic = "none"
       THEN Finish(Reply(400, "mnemonic required"))
       ELSE IF ~MnemonicValid(req.mnemonic)
       THEN Finish(Reply(500, "Invalid mnemonic"))
       ELSE Finish(ReplyWallet(WalletBody(P2wpkhAddress(deriveFromMnemonic(req.mnemonic)),
                                          req.mnemonic, deriveFromMnemonic(req.mnemonic),
                                          NoBytes)))
    /\ UNCHANGED <<module, other, interleaved, chain, op, req, replies, drawn, calls, signatures,
                   btcVars, solVars, evmVars, adaVars>>

\* solana_server.mjs lines 92-111.
SolCreate ==
    /\ chain = "sol" /\ op = "create" /\ pc = "start"
    /\ IF WordsOrDefault(req.words, 12) \notin {12, 24}
       THEN Finish(Reply(400, "words must be 12 or 24")) /\ UNCHANGED drawn
       ELSE \E m \in GeneratedMnemonics :
              /\ Draw("SolCreate", m)
              /\ Finish(ReplyWallet(SolWalletBody(m, exportKeypair(keypairFromMnemonic(m)))))
    /\ UNCHANGED <<module, other, interleaved, chain, op, req, replies, calls, signatures,
                   btcVars, solVars, evmVars, adaVars>>

\* solana_server.mjs lines 114-126.
SolImport ==
    /\ chain = "sol" /\ op = "import" /\ pc = "start"
    /\ IF req.privateKey.form = "none"
       THEN Finish(Reply(400, "privateKey required")) /\ UNCHANGED sender
       ELSE LET kp == keypairFromPrivateKeyInput(req.privateKey)
            IN  IF ~kp.ok
                THEN Finish(Reply(500, kp.error)) /\ UNCHANGED sender
                ELSE /\ sender' = kp
                     /\ Finish(ReplyWallet(SolWalletBody("none", exportKeypair(kp.key))))
    /\ UNCHANGED <<module, other, interleaved, chain, op, req, replies, drawn, calls, signatures,
                   btcVars, lamports, evmVars, adaVars>>

\* solana_server.mjs lines 129-141.
SolImportMnemonic ==
    /\ chain = "sol" /\ op = "importMnemonic" /\ pc = "start"
    /\ IF req.mnemonic = "none"
       THEN Finish(Reply(400, "mnemonic required"))
       ELSE IF ~MnemonicValid(req.mnemonic)
       THEN Finish(Reply(500, "Invalid mnemonic"))
       ELSE Finish(ReplyWallet(SolWalletBody("none",
                                  exportKeypair(keypairFromMnemonic(req.mnemonic)))))
    /\ UNCHANGED <<module, other, interleaved, chain, op, req, replies, drawn, calls, signatures,
                   btcVars, solVars, evmVars, adaVars>>

\* cardano-server.mjs lines 91-103 and 415-427: words is not validated.
AdaCreate ==
    /\ chain \in {"ada", "ada2"} /\ op = "create" /\ pc = "start"
    /\ \E m \in GeneratedMnemonics :
         /\ Draw("AdaCreate", m)
         /\ Finish(ReplyWallet(WalletBody(deriveKeysFromMnemonic(m), m, "none", NoBytes)))
    /\ UNCHANGED <<module, other, interleaved, chain, op, req, replies, calls, signatures,
                   btcVars, solVars, evmVars, adaVars>>

\* cardano-server.mjs lines 108-120 and 430-443.
AdaImport ==
    /\ chain \in {"ada", "ada2"} /\ op = "import" /\ pc = "start"
    /\ IF req.mnemonic = "none"
       THEN Finish(Reply(400, "Mnemonic required"))
       ELSE IF ~MnemonicValid(req.mnemonic)
       THEN Finish(Reply(500, "Invalid mnemonic"))
       ELSE Finish(ReplyWallet(WalletBody(deriveKeysFromMnemonic(req.mnemonic),
                                          req.mnemonic, "none", NoBytes)))
    /\ UNCHANGED <<module, other, interleaved, chain, op, req, replies, drawn, calls, signatures,
                   btcVars, solVars, evmVars, adaVars>>

WalletNext ==
    \/ BtcCreate
    \/ BtcImport
    \/ BtcImportMnemonic
    \/ SolCreate
    \/ SolImport
    \/ SolImportMnemonic
    \/ AdaCreate
    \/ AdaImport

(***************************************************************************)
(* unnamed/part_000: the wallet routes of the Tatum BTC router.            *)
(***************************************************************************)
TatumImportMnemonicRequests == [mnemonic : {"none", "bad", "mA"}]

InitTatumWallet ==
    /\ chain = "tatum"
    /\ \/ op = "create" /\ req \in CreateRequests
       \/ op = "import" /\ req \in BtcImportRequests
       \/ op = "importMnemonic" /\ req \in TatumImportMnemonicRequests
    /\ Idle

\* Lines 152-174.
TatumCreate ==
    /\ chain = "tatum" /\ op = "create" /\ pc = "start"
    /\ IF WordsOrDefault(req.words, 12) \notin {12, 24}
       THEN Finish(Reply(400, "words must be 12 or 24")) /\ UNCHANGED drawn
       ELSE \E m \in GeneratedMnemonics :
              /\ Draw("TatumCreate", m)
              /\ Finish(ReplyWallet(WalletBody(P2wpkhAddress(deriveFromMnemonic(m)), m,
                                            deriveFromMnemonic(m), NoBytes)))
    /\ UNCHANGED <<module, other, interleaved, chain, op, req, replies, calls, signatures,
                   btcVars, solVars, evmVars, adaVars>>

\* Lines 182-212.
TatumImport ==
    /\ chain = "tatum" /\ op = "import" /\ pc = "start"
    /\ IF req.privateKeyWIF = "none"
       THEN Finish(Reply(400, "privateKeyWIF required"))
       ELSE IF ~WifValid(req.privateKeyWIF)
       THEN Finish(Reply(500, "Invalid WIF or failed to import wallet"))
       ELSE Finish(ReplyWallet(WalletBody(P2wpkhAddress(req.privateKeyWIF), "none",
                                          req.privateKeyWIF, NoBytes)))
    /\ UNCHANGED <<module, other, interleaved, chain, op, req, replies, drawn, calls, signatures,
                   btcVars, solVars, evmVars, adaVars>>

\* Lines 221-262: an invalid mnemonic is answered with 400, and the body of a
\* success has no mnemonic.
TatumImportMnemonic ==
    /\ chain = "tatum" /\ op = "importMnemonic" /\ pc = "start"
    /\ IF req.mnemonic = "none"
       THEN Finish(Reply(400, "mnemonic required"))
       ELSE IF ~MnemonicValid(req.mnemonic)
       THEN Finish(Reply(400, "Invalid mnemonic"))
       ELSE Finish(ReplyWallet(WalletBody(P2wpkhAddress(deriveFromMnemonic(req.mnemonic)),
                                          "none", deriveFromMnemonic(req.mnemonic),
                                          NoBytes)))
    /\ UNCHANGED <<module, other, interleaved, chain, op, req, replies, drawn, calls, signatures,
                   btcVars, solVars, evmVars, adaVars>>

TatumWalletNext ==
    \/ TatumCreate
    \/ TatumImport
    \/ TatumImportMnemonic

(***************************************************************************)
(* The balance routes of the BTC, Tatum, Solana and Cardano routers: one   *)
(* provider call, then the answer.                                         *)
(***************************************************************************)
\* x || 0 for a field of a provider's reply
OrZero(x) == IF Falsy(x) THEN Num(0, 1) ELSE x

\* btc-server.mjs fetchBalance (lines 77-93) of r.data: the sums are whole
\* numbers of satoshi.
fetchBalance(data) ==
    LET confirmed == OrZero(data.chain_stats.funded_txo_sum).num
                       - OrZero(data.chain_stats.spent_txo_sum).num
        mempool   == OrZero(data.mempool_stats.funded_txo_sum).num
                       - OrZero(data.mempool_stats.spent_txo_sum).num
    IN  [sats |-> confirmed + mempool, confirmed_sats |-> confirmed]

TxoStats == {[funded_txo_sum |-> Absent, spent_txo_sum |-> Absent],
             [funded_txo_sum |-> Num(5000, 1), spent_txo_sum |-> Num(0, 1)],
             [funded_txo_sum |-> Num(5000, 1), spent_txo_sum |-> Num(1000, 1)]}

BtcBalanceData == [chain_stats : TxoStats, mempool_stats : TxoStats]

BtcBalanceReplies ==
    { [ok |-> TRUE, data |-> d] : d \in BtcBalanceData }
    \cup { [ok |-> FALSE, data |-> d] :
             d \in [chain_stats : {[funded_txo_sum |-> Absent, spent_txo_sum |-> Absent]},
                    mempool_stats : {[funded_txo_sum |-> Absent, spent_txo_sum |-> Absent]}] }

\* unnamed/part_000 lines 282-286: the provider gives incoming and outgoing in
\* BTC; Number(incoming || 0) - Number(outgoing || 0), then
\* Math.round(balanceBtc * 1e8).
TatumBalanceSats(incoming, outgoing) ==
    LET inBtc  == Number(OrZero(incoming).num, OrZero(incoming).den * SATS_PER_BTC)
        outBtc == Number(OrZero(outgoing).num, OrZero(outgoing).den * SATS_PER_BTC)
    IN  RoundOf(TimesInt(Minus(inBtc, outBtc), Big(SATS_PER_BTC)))

\* What was received is never less than what was spent.
TatumBalanceData ==
    {[incoming |-> Absent, outgoing |-> Absent],
     [incoming |-> Num(4000, 1), outgoing |-> Absent],
     [incoming |-> Num(10, 1), outgoing |-> Num(10, 1)],
     [incoming |-> Num(10, 1), outgoing |-> Num(3, 1)],
     [incoming |-> Num(30000000, 1), outgoing |-> Num(10000000, 1)],
     [incoming |-> Num(100000000, 1), outgoing |-> Num(0, 1)]}

TatumBalanceReplies ==
    { [ok |-> TRUE, data |-> d] : d \in TatumBalanceData }
    \cup {[ok |-> FALSE, data |-> [incoming |-> Absent, outgoing |-> Absent]]}

\* TatumBalanceSats of every reply, computed once.
TatumSatsOf == [d \in TatumBalanceData |-> TatumBalanceSats(d.incoming, d.outgoing)]

\* new PublicKey(address) throws on a text that is no public key.
PublicKeyValid(a) == a \in {"S1", "S2"}

\* startsWith("addr1")
StartsWithAddr1(a) == a \in {"addr1A", "addr1T"}

\* The lovelace entry of the provider's list, when it has one: its value.
LovelaceReplies ==
    {[ok |-> FALSE, found |-> FALSE, value |-> 0], [ok |-> TRUE, found |-> FALSE, value |-> 0],
     [ok |-> TRUE, found |-> TRUE, value |-> 0], [ok |-> TRUE, found |-> TRUE, value |-> 5000000]}

LamportReplies == {[ok |-> FALSE, value |-> 0], [ok |-> TRUE, value |-> 0],
                   [ok |-> TRUE, value |-> 5]}

BtcBalanceRequests == [address : {"A", "B"}]
SolBalanceRequests == [address : {"S1", "bad"}]
AdaBalanceRequests == [address : {"addr1A", "addr_bad", "xT"}]

InitBalance ==
    /\ op = "balance"
    /\ \/ chain \in {"btc", "tatum"} /\ req \in BtcBalanceRequests
       \/ chain = "sol" /\ req \in SolBalanceRequests
       \/ chain \in {"ada", "ada2"} /\ req \in AdaBalanceRequests
    /\ Idle

\* btc-server.mjs lines 230-232 and 76.
BtcBalance ==
    /\ chain = "btc" /\ op = "balance" /\ pc = "start"
    /\ calls' = Append(calls, "fetchBalance")
    /\ pc' = "awaitFetchBalance"
    /\ UNCHANGED <<module, other, interleaved, chain, op, req, replies, drawn, signatures, resp,
                   btcVars, solVars, evmVars, adaVars>>

\* btc-server.mjs lines 77-93 and 233-242.
BtcBalanceReply ==
    /\ chain = "btc" /\ op = "balance" /\ pc = "awaitFetchBalance"
    /\ \E reply \in BtcBalanceReplies :
         /\ replies' = Append(replies, IF reply.ok THEN "ok" ELSE "fail")
         /\ Draw("BtcBalanceReply", reply)
         /\ IF reply.ok
            THEN LET bal == fetchBalance(reply.data)
                 IN  Finish(ReplyBalance(req.address, bal.sats, bal.confirmed_sats))
            ELSE Finish(Reply(500, "provider error"))
    /\ UNCHANGED <<module, other, interleaved, chain, op, req, calls, signatures,
                   btcVars, solVars, evmVars, adaVars>>

\* unnamed/part_000 lines 272-280.
TatumBalance ==
    /\ chain = "tatum" /\ op = "balance" /\ pc = "start"
    /\ calls' = Append(calls, "tatumBalance")
    /\ pc' = "awaitTatumBalance"
    /\ UNCHANGED <<module, other, interleaved, chain, op, req, replies, drawn, signatures, resp,
                   btcVars, solVars, evmVars, adaVars>>

\* unnamed/part_000 lines 282-302.
TatumBalanceReply ==
    /\ chain = "tatum" /\ op = "balance" /\ pc = "awaitTatumBalance"
    /\ \E reply \in TatumBalanceReplies :
         /\ replies' = Append(replies, IF reply.ok THEN "ok" ELSE "fail")
         /\ Draw("TatumBalanceReply", reply)
         /\ IF reply.ok
            THEN Finish(ReplyBalance(req.address, TatumSatsOf[reply.data], 0))
            ELSE Finish(Reply(500, "provider error"))
    /\ UNCHANGED <<module, other, interleaved, chain, op, req, calls, signatures,
                   btcVars, solVars, evmVars, adaVars>>

\* solana_server.mjs lines 144-147: the address, then connection.getBalance.
SolBalance ==
    /\ chain = "sol" /\ op = "balance" /\ pc = "start"
    /\ IF ~PublicKeyValid(req.address)
       THEN Finish(Reply(500, "invalid public key")) /\ UNCHANGED calls
       ELSE /\ calls' = Append(calls, "getBalance")
            /\ pc' = "awaitSolBalance"
            /\ UNCHANGED resp
    /\ UNCHANGED <<module, other, interleaved, chain, op, req, replies, drawn, signatures,
                   btcVars, solVars, evmVars, adaVars>>

\* solana_server.mjs lines 147-156.
SolBalanceReply ==
    /\ chain = "sol" /\ op = "balance" /\ pc = "awaitSolBalance"
    /\ \E reply \in LamportReplies :
         /\ replies' = Append(replies, IF reply.ok THEN "ok" ELSE "fail")
         /\ Draw("SolBalanceReply", reply)
         /\ IF reply.ok
            THEN Finish(ReplyBalance(req.address, reply.value, 0))
            ELSE Finish(Reply(500, "provider error"))
    /\ UNCHANGED <<module, other, interleaved, chain, op, req, calls, signatures,
                   btcVars, solVars, evmVars, adaVars>>

\* cardano-server.mjs lines 127-147 (the address must start with addr1) and
\* 446-453 (no check).
AdaBalance ==
    /\ chain \in {"ada", "ada2"} /\ op = "balance" /\ pc = "start"
    /\ IF chain = "ada" /\ ~StartsWithAddr1(req.address)
       THEN Finish(Reply(400, "Invalid mainnet Cardano address")) /\ UNCHANGED calls
       ELSE /\ calls' = Append(calls, "fetchBalance")
            /\ pc' = "awaitAdaBalance"
            /\ UNCHANGED resp
    /\ UNCHANGED <<module, other, interleaved, chain, op, req, replies, drawn, signatures,
                   btcVars, solVars, evmVars, adaVars>>

\* cardano-server.mjs lines 149-169 and 455-467: the lovelace of the reply, 0
\* when the list has no such entry.
AdaBalanceReply ==
    /\ chain \in {"ada", "ada2"} /\ op = "balance" /\ pc = "awaitAdaBalance"
    /\ \E reply \in LovelaceReplies :
         /\ replies' = Append(replies, IF reply.ok THEN "ok" ELSE "fail")
         /\ Draw("AdaBalanceReply", reply)
         /\ IF reply.ok
            THEN Finish(ReplyBalance(req.address,
                                     IF reply.found THEN reply.value ELSE 0, 0))
            ELSE IF chain = "ada"
            THEN Finish(Reply(500, "Unable to fetch balance"))
            ELSE Finish(Reply(500, "provider error"))
    /\ UNCHANGED <<module, other, interleaved, chain, op, req, calls, signatures,
                   btcVars, solVars, evmVars, adaVars>>

BalanceNext ==
    \/ BtcBalance
    \/ BtcBalanceReply
    \/ TatumBalance
    \/ TatumBalanceReply
    \/ SolBalance
    \/ SolBalanceReply
    \/ AdaBalance
    \/ AdaBalanceReply

(***************************************************************************)
(* The health routes: router.get('/health') of the BTC, Tatum, EVM and     *)
(* Solana routers and app.get("/") of server.mjs answer 200 at once.       *)
(***************************************************************************)
HealthRequests == [path : {"/health"}]

InitHealth ==
    /\ chain \in {"btc", "tatum", "evm", "sol", "app"}
    /\ op = "health"
    /\ req \in HealthRequests
    /\ Idle

Health ==
    /\ chain \in {"btc", "tatum", "evm", "sol", "app"} /\ op = "health" /\ pc = "start"
    /\ Finish(Reply(200, "none"))
    /\ UNCHANGED <<module, other, interleaved, chain, op, req, replies, drawn, calls, signatures,
                   btcVars, solVars, evmVars, adaVars>>

\* A request to a route of one of the router modules.  server.mjs mounts the
\* BTC, EVM, Solana and Cardano routers; the Tatum BTC router (chain "tatum")
\* and the second definition of the Cardano router (chain "ada2") are modules
\* of the same source tree, each with its own export, and a deployment that
\* mounts them serves their routes as written.
InitRequest ==
    \/ InitBtc \/ InitTatum \/ InitSol \/ InitEvm \/ InitEvmWallet \/ InitAda
    \/ InitWallet \/ InitTatumWallet \/ InitBalance \/ InitHealth

\* The objects the modules bind when they are loaded and the handlers use:
\* NETWORK (btc-server.mjs:27), connection (solana_server.mjs:27), the keys
\* of CHAINS (unnamed/part_000:386-410).  They are const bindings of objects.
ModuleAtLoad ==
    [NETWORK |-> "bitcoin",
     connection |-> [rpcEndpoint |-> "SOLANA_RPC", commitment |-> "confirmed"],
     CHAINS |-> ChainNames]

Init ==
    /\ module = ModuleAtLoad
    /\ other = NoFrame
    /\ interleaved = NoFrame
    /\ InitRequest

Next ==
    \/ BtcNext \/ TatumNext \/ SolNext \/ EvmNext \/ EvmWalletNext \/ AdaNext
    \/ WalletNext \/ TatumWalletNext \/ BalanceNext \/ Health

Spec == Init /\ [][Next]_vars

(***************************************************************************)
(* Two requests in flight.  The variables from chain to txInputs are a     *)
(* const or let of a handler's own call, or a field of its req and res:    *)
(* the running request holds them, and `other` holds those of a request    *)
(* that is suspended.  `module` is what both see.  Node runs a handler     *)
(* until it awaits a provider call or returns: the BTC handler from the    *)
(* last fetch to the broadcast (fund, build, sign, finalize) runs without  *)
(* await and is never interrupted.                                          *)
(*                                                                         *)
(* When both requests have been answered, one of them is received again    *)
(* by a program just loaded and runs alone, given what it was given before *)
(* (`interleaved` keeps the locals it ended with beside the other one).    *)
(***************************************************************************)
Frame ==
    [chain |-> chain, op |-> op, req |-> req, pc |-> pc, calls |-> calls,
     replies |-> replies, drawn |-> drawn, signatures |-> signatures, resp |-> resp,
     utxos |-> utxos, rate |-> rate, amountSats |-> amountSats, chosen |-> chosen,
     sum |-> sum, fee |-> fee, psbt |-> psbt, sender |-> sender, lamports |-> lamports,
     balanceWei |-> balanceWei, feeData |-> feeData, estimatedGas |-> estimatedGas,
     gasCost |-> gasCost, valueWei |-> valueWei, tokenDecimals |-> tokenDecimals,
     amountLovelace |-> amountLovelace, totalInput |-> totalInput, txInputs |-> txInputs]

\* The locals of a request just received.
IdleFrame(c, o, r) ==
    [chain |-> c, op |-> o, req |-> r, pc |-> "start", calls |-> <<>>,
     replies |-> <<>>, drawn |-> <<>>, signatures |-> 0, resp |-> NoResp,
     utxos |-> <<>>, rate |-> Frac(0, 1), amountSats |-> 0, chosen |-> <<>>,
     sum |-> 0, fee |-> 0, psbt |-> EmptyPsbt, sender |-> NoKeypair, lamports |-> 0,
     balanceWei |-> 0, feeData |-> NoFeeData, estimatedGas |-> 0,
     gasCost |-> 0, valueWei |-> 0, tokenDecimals |-> 0,
     amountLovelace |-> 0, totalInput |-> 0, txInputs |-> <<>>]

\* The second request: a send of each router.
SecondRequests ==
    { IdleFrame("btc", "send",
                [from |-> "A", privateKeyWIF |-> "kA", to |-> "T",
                 amount |-> Num(2500, 1), feeRate |-> Absent]),
      IdleFrame("tatum", "send",
                [from |-> "A", privateKey |-> "kA", to |-> "T", amount |-> Num(2500, 1)]),
      IdleFrame("sol", "send",
                [from |-> "S1", to |-> "T", amount |-> Num(5, 1),
                 privateKey |-> KeyInput("array", Bytes(64, "k1"), NoBytes, NoBytes, NoBytes)]),
      IdleFrame("evm", "send",
                [from |-> "0xAA", to |-> "0xCC", privateKey |-> "kA", chain |-> "ethereum",
                 gasLimit |-> NoGasLimit, amount |-> EvmAmount("num", 30, 1)]),
      IdleFrame("ada", "send",
                [mnemonic |-> "mA", to |-> "addr1T", amount |-> Num(1000000, 1)]) }

\* The first request: a request to any route.  Of the EVM and Solana sends,
\* those whose addresses and key pass the field checks, with one reading of
\* a text key as base64.
FirstRequest ==
    /\ (chain = "evm" /\ op = "send") =>
          /\ req.from \in {"0xAA", "0xBB"} /\ req.to = "0xCC" /\ req.privateKey = "kA"
          /\ req.gasLimit # GasLimit(0)
    /\ (chain = "sol" /\ op = "send") =>
          /\ req.to # "none" /\ req.amount \in {Num(1, 2), Num(5, 1)}
          /\ req.privateKey.form = "string" => req.privateKey.b64 = Bytes(32, "k2")

InitPair ==
    /\ module = ModuleAtLoad
    /\ other \in SecondRequests
    /\ interleaved = NoFrame
    /\ InitRequest
    /\ FirstRequest

\* The handler is not running: not started, at an await, or returned.
Suspended(p) == p \notin {"haveRate", "feeAdjusted", "signing"}

\* The running request takes the locals of frame f.
Resume(f) ==
    /\ chain' = f.chain /\ op' = f.op /\ req' = f.req /\ pc' = f.pc
    /\ calls' = f.calls /\ replies' = f.replies /\ drawn' = f.drawn
    /\ signatures' = f.signatures /\ resp' = f.resp
    /\ utxos' = f.utxos /\ rate' = f.rate /\ amountSats' = f.amountSats
    /\ chosen' = f.chosen /\ sum' = f.sum /\ fee' = f.fee /\ psbt' = f.psbt
    /\ sender' = f.sender /\ lamports' = f.lamports
    /\ balanceWei' = f.balanceWei /\ feeData' = f.feeData
    /\ estimatedGas' = f.estimatedGas /\ gasCost' = f.gasCost
    /\ valueWei' = f.valueWei /\ tokenDecimals' = f.tokenDecimals
    /\ amountLovelace' = f.amountLovelace /\ totalInput' = f.totalInput
    /\ txInputs' = f.txInputs

\* The running handler is suspended and the other request's handler resumes
\* with its own locals.
Switch ==
    /\ other # NoFrame
    /\ Suspended(pc)
    /\ other' = Frame
    /\ Resume(other)
    /\ UNCHANGED <<module, interleaved>>

\* Both requests are answered.  One of them is received again by a program
\* just loaded, with no other request in flight.
RunAlone ==
    /\ other # NoFrame
    /\ pc = "done" /\ other.pc = "done"
    /\ \E f \in {[own |-> Frame, beside |-> other], [own |-> other, beside |-> Frame]} :
         /\ interleaved' = f
         /\ Resume(IdleFrame(f.own.chain, f.own.op, f.own.req))
    /\ other' = NoFrame
    /\ module' = ModuleAtLoad

\* What the requests of SecondRequests are given by their providers.
PairScript ==
    [BtcUtxosReply |-> [ok |-> TRUE, data |-> <<[id |-> 1, value |-> 5000]>>],
     BtcFeeRateReply |-> [kind |-> "ok", num |-> 5, den |-> 2],
     BtcBroadcastReply |-> TRUE,
     TatumReply |-> TRUE,
     SolReply |-> TRUE,
     EvmBalanceReply |-> [ok |-> TRUE, wei |-> 100],
     EvmFeeDataReply |-> [ok |-> TRUE, data |-> FeeDataOf(FALSE, 0, TRUE, 10)],
     EvmEstimateReply |-> [ok |-> TRUE, units |-> 2],
     EvmSendReply |-> TRUE,
     AdaUtxosReply |-> <<[ok |-> TRUE, data |-> <<AdaUtxo(1, TRUE, 6000000)>>], TRUE, TRUE>>,
     AdaSubmitReply |-> TRUE]

\* The bounds of a run of two requests: a UTXO reply has at most PairMaxUtxos
\* entries, and a request of SecondRequests is given the replies of PairScript.
InPairBounds ==
    Len(drawn') > Len(drawn) =>
      LET g == drawn'[Len(drawn')]
      IN  /\ g.by = "BtcUtxosReply" => Len(g.val.data) <= PairMaxUtxos
          /\ g.by = "AdaUtxosReply" => Len(g.val[1].data) <= PairMaxUtxos
          /\ IdleFrame(chain, op, req) \in SecondRequests => g.val = PairScript[g.by]

\* The request that runs again alone is given what it was given before.
AsGivenBefore ==
    Len(drawn') > Len(drawn) =>
      LET k == Len(drawn')
      IN  /\ k <= Len(interleaved.own.drawn)
          /\ interleaved.own.drawn[k].by = drawn'[k].by
          /\ interleaved.own.drawn[k].val = drawn'[k].val

\* A step of the running handler: within the bounds while two requests are in
\* flight, and given what it was given before when a request runs again alone.
Step(A) == A /\ (IF interleaved = NoFrame THEN InPairBounds ELSE AsGivenBefore)

NextPair ==
    \/ Step(BtcSend) \/ Step(BtcUtxosReply) \/ Step(BtcFeeRateReply)
    \/ Step(BtcFund) \/ Step(BtcBuild) \/ Step(BtcSignInput)
    \/ Step(BtcBroadcast) \/ Step(BtcBroadcastReply) \/ Step(TatumSend)
    \/ Step(TatumReply) \/ Step(SolSend) \/ Step(SolReply)
    \/ Step(EvmSend) \/ Step(EvmBalanceReply) \/ Step(EvmFeeDataReply)
    \/ Step(EvmEstimateReply) \/ Step(EvmSendReply) \/ Step(EvmCreate)
    \/ Step(EvmImport) \/ Step(EvmImportMnemonic) \/ Step(EvmBalance)
    \/ Step(EvmGetBalanceReply) \/ Step(EvmTokenBalance) \/ Step(EvmBalanceOfReply)
    \/ Step(EvmDecimalsReply) \/ Step(EvmTokenTransfer) \/ Step(EvmTokenDecimalsReply)
    \/ Step(EvmTransferReply) \/ Step(AdaSend) \/ Step(AdaUtxosReply)
    \/ Step(AdaSubmitReply) \/ Step(BtcCreate) \/ Step(BtcImport)
    \/ Step(BtcImportMnemonic) \/ Step(SolCreate) \/ Step(SolImport)
    \/ Step(SolImportMnemonic) \/ Step(AdaCreate) \/ Step(AdaImport)
    \/ Step(TatumCreate) \/ Step(TatumImport) \/ Step(TatumImportMnemonic)
    \/ Step(BtcBalance) \/ Step(BtcBalanceReply) \/ Step(TatumBalance)
    \/ Step(TatumBalanceReply) \/ Step(SolBalance) \/ Step(SolBalanceReply)
    \/ Step(AdaBalance) \/ Step(AdaBalanceReply) \/ Step(Health)
    \/ Switch \/ RunAlone

SpecPair == InitPair /\ [][NextPair]_vars

(***************************************************************************)
(* Vocabulary of the properties.                                           *)
(***************************************************************************)
\* The calls that hand a transaction to the network.
BroadcastCalls == {"broadcastTx", "tatumTransaction", "sendAndConfirmTransaction",
                   "sendTransaction", "submit", "transfer"}

Broadcasts(c) == Cardinality({i \in 1..Len(c) : c[i] \in BroadcastCalls})

\* The total value of a sequence of UTXOs.
RECURSIVE SeqSum(_)
SeqSum(s) == IF s = <<>> THEN 0 ELSE Head(s).value + SeqSum(Tail(s))

\* The BTC handler has run its selection, fee and funds check.
BtcFundRan == chain = "btc" /\ utxos # <<>> /\ pc \notin {"awaitFeeRate", "haveRate"}

\* The selection target of the BTC send.
BtcTarget == amountSats + SelectionBuffer

PrefixTotal(s, j) == SeqSum(SubSeq(s, 1, j))

ValuesOf(s) == {s[i].value : i \in 1..Len(s)}

(***************************************************************************)
(* C1.  BTC send: an input is signed, the transaction finalized or          *)
(* broadcast only when the chosen inputs total at least amountSats + fee;   *)
(* when they total less, the request has ended with 'insufficient funds',   *)
(* nothing is signed, no transaction is built and nothing is broadcast.     *)
(***************************************************************************)
C1_FundsBeforeSigning ==
    chain = "btc" =>
      /\ (signatures > 0 \/ psbt.finalized \/ Broadcasts(calls) > 0 \/ psbt.inputs # <<>>)
            => /\ psbt.inputs = chosen
               /\ SeqSum(psbt.inputs) >= amountSats + fee
      /\ (BtcFundRan /\ SeqSum(chosen) < amountSats + fee)
            => /\ pc = "done"
               /\ resp = Reply(400, "insufficient funds")
               /\ signatures = 0
               /\ psbt = EmptyPsbt
               /\ Broadcasts(calls) = 0

C1_Witness ==
    /\ chain = "btc" /\ BtcFundRan
    /\ SeqSum(chosen) >= amountSats /\ SeqSum(chosen) < amountSats + fee
    /\ resp = Reply(400, "insufficient funds")

(***************************************************************************)
(* C2.  Every send: when the address derived from the supplied key differs  *)
(* from the declared sender, the request ends with the signer-mismatch      *)
(* error and no provider call is made and nothing is signed.  The Tatum BTC *)
(* send never derives the address and posts the request to the provider.    *)
(***************************************************************************)
SignerMismatch ==
    /\ op = "send"
    /\ \/ /\ chain = "btc"
          /\ WifValid(req.privateKeyWIF) /\ req.to # "none" /\ ~Falsy(req.amount)
          /\ P2wpkhAddress(req.privateKeyWIF) # req.from
       \/ /\ chain = "tatum"
          /\ WifValid(req.privateKey) /\ req.to # "none" /\ ~Falsy(req.amount)
          /\ P2wpkhAddress(req.privateKey) # req.from
       \/ /\ chain = "sol"
          /\ req.privateKey.form # "none" /\ req.to # "none" /\ ~Falsy(req.amount)
          /\ keypairFromPrivateKeyInput(req.privateKey).ok
          /\ PublicKeyBase58(keypairFromPrivateKeyInput(req.privateKey).key) # req.from
       \/ /\ chain = "evm"
          /\ isAddress(req.from) /\ isAddress(req.to)
          /\ WalletKeyValid(req.privateKey) /\ ChainSupported(req.chain)
          /\ toLowerCase(WalletAddress(req.privateKey)) # toLowerCase(req.from)

C2_MismatchAbortsBeforeNetwork ==
    SignerMismatch =>
      /\ calls = <<>>
      /\ signatures = 0
      /\ pc = "done" => resp = Reply(400, "privateKey mismatch")

(***************************************************************************)
(* C3.  Every send: no step leaves more than one broadcast call issued, and *)
(* once the broadcast call is issued no step issues another provider call,  *)
(* signs again or changes the draft, whatever the broadcast's outcome.      *)
(***************************************************************************)
C3_BroadcastAtMostOnce ==
    [][ /\ Broadcasts(calls') <= 1
        /\ Broadcasts(calls) >= 1
             => /\ calls' = calls
                /\ signatures' = signatures
                /\ psbt' = psbt
                /\ txInputs' = txInputs ]_vars

C3_Witness ==
    /\ pc = "done" /\ resp = Reply(500, "provider error")
    /\ Broadcasts(calls) = 1
    /\ chain = "btc"

(***************************************************************************)
(* C4.  selectUtxosGreedy, as the BTC send applies it to the fetched UTXOs  *)
(* and target amountSats + 1000: chosen is a prefix of the UTXOs in         *)
(* ascending order of value, it stops at the first UTXO whose running sum   *)
(* reaches the target (no earlier prefix reaches it, and a proper subset is *)
(* chosen only when the target is reached), and sum is the total of chosen. *)
(* Values 1000, 2000, 5000 with target 3500 give all three and 8000.        *)
(***************************************************************************)
C4_GreedyPrefix ==
    BtcFundRan =>
      /\ chosen # <<>>
      /\ \A i \in 1..Len(chosen) :
            /\ chosen[i].id \in 1..Len(utxos)
            /\ chosen[i] = utxos[chosen[i].id]
      /\ \A i, j \in 1..Len(chosen) :
            i < j => /\ chosen[i].id # chosen[j].id
                     /\ chosen[i].value <= chosen[j].value
      /\ \A k \in 1..Len(utxos) :
            (\A i \in 1..Len(chosen) : chosen[i].id # k)
               => \A i \in 1..Len(chosen) : chosen[i].value <= utxos[k].value
      /\ sum = SeqSum(chosen)
      /\ \A j \in 1..(Len(chosen) - 1) : PrefixTotal(chosen, j) < BtcTarget
      /\ Len(chosen) < Len(utxos) => sum >= BtcTarget
      /\ (Len(utxos) = 3 /\ ValuesOf(utxos) = {1000, 2000, 5000} /\ BtcTarget = 3500)
            => Len(chosen) = 3 /\ sum = 8000

C4_Witness ==
    /\ BtcFundRan
    /\ Len(utxos) = 3 /\ utxos[1].value = 5000 /\ utxos[2].value = 1000
    /\ utxos[3].value = 2000
    /\ BtcTarget = 3500
    /\ Len(chosen) = 3 /\ chosen[1].value = 1000 /\ chosen[3].value = 5000
    /\ sum = 8000

(***************************************************************************)
(* C5.  selectUtxosGreedy when all the UTXOs total less than the target:    *)
(* it returns every UTXO and their total, and the handler goes on to its    *)
(* own funds check.  Values 100, 200 with target 1000 give both and 300.    *)
(***************************************************************************)
C5_ShortfallReturnsAll ==
    (BtcFundRan /\ SeqSum(utxos) < BtcTarget) =>
      /\ Len(chosen) = Len(utxos)
      /\ \A k \in 1..Len(utxos) : \E i \in 1..Len(chosen) : chosen[i] = utxos[k]
      /\ sum = SeqSum(utxos)
      /\ sum < BtcTarget
      /\ (Len(utxos) = 2 /\ ValuesOf(utxos) = {100, 200} /\ BtcTarget = 1000)
            => Len(chosen) = 2 /\ sum = 300

C5_Witness ==
    /\ BtcFundRan
    /\ Len(utxos) = 2 /\ utxos[1].value = 200 /\ utxos[2].value = 100
    /\ BtcTarget = 1000
    /\ Len(chosen) = 2 /\ sum = 300

(***************************************************************************)
(* C6.  estimateTxVsize(n, m) = 68 n + 31 m + 10, and the fee of the BTC    *)
(* send is the least integer that is at least                               *)
(* estimateTxVsize(chosen.length, 2) * rate.  As stated, with               *)
(* vsize(2, 2) = 218 and a fee of 2180 for two inputs at rate 10.           *)
(***************************************************************************)
C6_Original ==
    BtcFundRan =>
      LET v == 68 * Len(chosen) + 31 * 2 + 10
      IN  /\ \A n \in 0..(MaxUtxos + 1), m \in 0..3 :
                estimateTxVsize(n, m) = 68 * n + 31 * m + 10
          /\ fee * rate.den >= v * rate.num
          /\ (fee - 1) * rate.den < v * rate.num
          /\ Len(chosen) = 2 => estimateTxVsize(Len(chosen), 2) = 218
          /\ (Len(chosen) = 2 /\ rate = Frac(10, 1)) => fee = 2180

(***************************************************************************)
(* C6, amended.  The same formula; 68*2 + 31*2 + 10 is 208, so              *)
(* vsize(2, 2) = 208 and the fee of two inputs at rate 10 is 2080.          *)
(***************************************************************************)
C6_FeeFormula ==
    /\ \A n \in 0..(MaxUtxos + 1), m \in 0..3 :
          estimateTxVsize(n, m) = 68 * n + 31 * m + 10
    /\ BtcFundRan =>
          LET v == 68 * Len(chosen) + 31 * 2 + 10
          IN  /\ fee * rate.den >= v * rate.num
              /\ (fee - 1) * rate.den < v * rate.num
              /\ Len(chosen) = 2 => v = 208 /\ estimateTxVsize(2, 2) = v
              /\ (Len(chosen) = 2 /\ rate = Frac(10, 1)) => fee = 2080

C6_Witness ==
    /\ BtcFundRan
    /\ Len(chosen) = 2 /\ rate = Frac(10, 1) /\ fee = 2080
    /\ calls = <<"fetchUtxos", "fetchFeeRate">>

(***************************************************************************)
(* C7.  BTC send: the transaction pays sum(inputs) - amount - fee back to   *)
(* the sender as a change output, has no change output when that value is   *)
(* zero, and is never built when it is negative.  The handler adds the      *)
(* change output whatever its value, so a change of zero is an output of 0. *)
(***************************************************************************)
C7_ChangeOmittedWhenZero ==
    (chain = "btc" /\ op = "send" /\ psbt.outputs # <<>>) =>
      LET change == SeqSum(psbt.inputs) - amountSats - fee
          back   == P2wpkhAddress(req.privateKeyWIF)
      IN  /\ change >= 0
          /\ psbt.outputs[1] = [address |-> req.to, value |-> amountSats]
          /\ change > 0 => psbt.outputs = << psbt.outputs[1],
                                             [address |-> back, value |-> change] >>
          /\ change = 0 => Len(psbt.outputs) = 1

(***************************************************************************)
(* C8.  EVM send with amount 'max', balance B and gas cost G =              *)
(* estimatedGas * (maxFeePerGas ?? gasPrice): when B > G the transaction    *)
(* sent has value B - G; when B <= G the request ends with 'balance too low *)
(* for gas' and nothing is signed or submitted.                             *)
(***************************************************************************)
\* The EVM handler has the balance, the fee data with a price, and the estimate.
EvmResolved ==
    /\ chain = "evm" /\ op = "send" /\ ~req.gasLimit.given /\ estimatedGas > 0
    /\ feeData.hasMaxFee \/ feeData.hasGasPrice

EvmG ==
    estimatedGas * (IF feeData.hasMaxFee THEN feeData.maxFeePerGas ELSE feeData.gasPrice)

C8_MaxSendsBalanceMinusGas ==
    (EvmResolved /\ req.amount.kind = "max") =>
      /\ balanceWei > EvmG
            => /\ pc \in {"awaitSend", "done"}
               /\ calls = <<"getBalance", "getFeeData", "estimateGas", "sendTransaction">>
               /\ valueWei = balanceWei - EvmG
      /\ balanceWei <= EvmG
            => /\ pc = "done"
               /\ resp = Reply(400, "balance too low for gas")
               /\ signatures = 0
               /\ Broadcasts(calls) = 0

C8_Witness ==
    /\ EvmResolved /\ req.amount.kind = "max"
    /\ balanceWei = 100 /\ EvmG = 50 /\ valueWei = 50
    /\ resp = Reply(200, "none")

(***************************************************************************)
(* C9.  EVM send with a numeric amount: when value + gas cost exceeds the   *)
(* balance the request ends with 'amount + gas exceeds balance' after the   *)
(* balance, fee data and gas estimate were fetched, and nothing is signed   *)
(* or submitted; every transaction sent has value + gas cost <= balance.    *)
(***************************************************************************)
C9_AmountPlusGasWithinBalance ==
    /\ (EvmResolved /\ ~IsMax(req.amount) /\ valueWei + EvmG > balanceWei)
          => /\ pc = "done"
             /\ resp = Reply(400, "amount + gas exceeds balance")
             /\ calls = <<"getBalance", "getFeeData", "estimateGas">>
             /\ signatures = 0
    /\ (chain = "evm" /\ op = "send" /\ Broadcasts(calls) > 0)
          => /\ EvmResolved
             /\ valueWei + EvmG <= balanceWei

C9_Witness ==
    /\ EvmResolved /\ req.amount = EvmAmount("num", 161, 2)
    /\ balanceWei = 100 /\ EvmG = 20 /\ valueWei = 81
    /\ resp = Reply(400, "amount + gas exceeds balance")

(***************************************************************************)
(* C10.  keypairFromPrivateKeyInput, as the Solana send applies it: the key *)
(* pair is that of the first of (a) array, (b) JSON array text, (c) base58  *)
(* of 32 or 64 bytes, (d) base64 of 32 or 64 bytes that yields one.  When   *)
(* none yields one, an input that is an array ends in the error of the key  *)
(* pair constructor (the array branch has no catch and nothing is tried     *)
(* after it); every other input ends in 'Unsupported privateKey format'.    *)
(***************************************************************************)
\* The four decodings in the order of the claim: whether each yields a key
\* pair, and the key pair.
Decodings(input) ==
    << [ok  |-> input.form = "array" /\ FromSecretKeyOk(Uint8ArrayFrom(input.arr)),
        key |-> fromSecretKey(Uint8ArrayFrom(input.arr)).key],
       [ok  |-> input.form # "array" /\ FromSecretKeyOk(Uint8ArrayFrom(input.json)),
        key |-> fromSecretKey(Uint8ArrayFrom(input.json)).key],
       [ok  |-> /\ input.form # "array"
                /\ \/ Len(input.b58) = 32
                   \/ FromSecretKeyOk(input.b58),
        key |-> IF Len(input.b58) = 32 THEN fromSeed(input.b58)
                ELSE fromSecretKey(input.b58).key],
       [ok  |-> /\ input.form # "array"
                /\ \/ Len(input.b64) = 32
                   \/ FromSecretKeyOk(input.b64),
        key |-> IF Len(input.b64) = 32 THEN fromSeed(input.b64)
                ELSE fromSecretKey(input.b64).key] >>

\* The Solana send has passed its field check, so the key input was decoded.
SolDecoded ==
    /\ chain = "sol" /\ op = "send" /\ pc # "start"
    /\ req.privateKey.form # "none" /\ req.to # "none" /\ ~Falsy(req.amount)

\* The key pair of the first decoding that yields one is the sender.
FirstDecodingIsSender ==
    LET d == Decodings(req.privateKey)
    IN  \A i \in 1..4 :
          (d[i].ok /\ \A j \in 1..(i - 1) : ~d[j].ok) => sender = KeyOk(d[i].key)

NoDecodingSucceeds == \A i \in 1..4 : ~Decodings(req.privateKey)[i].ok

\* C10 as the claim states it: when no decoding yields a key pair the call
\* fails with 'Unsupported privateKey format', whatever the input.
C10_UnsupportedWheneverNoneApplies ==
    SolDecoded =>
      /\ FirstDecodingIsSender
      /\ NoDecodingSucceeds
           => /\ sender = NoKeypair
              /\ resp = Reply(500, "Unsupported privateKey format")

\* C10, amended: the first decoding in the order (a)-(d) that yields a key
\* pair gives the result; when none does, an array input fails with the error
\* of the key pair constructor and any other input with 'Unsupported
\* privateKey format'; either way the request ends with status 500.
C10_FirstDecodingWins ==
    SolDecoded =>
      /\ FirstDecodingIsSender
      /\ NoDecodingSucceeds
           => /\ sender = NoKeypair
              /\ pc = "done"
              /\ resp = IF req.privateKey.form = "array"
                        THEN Reply(500, "bad secret key")
                        ELSE Reply(500, "Unsupported privateKey format")

\* A text that base58 reads as a seed and base64 as another: base58 wins.
C10_Witness ==
    /\ SolDecoded
    /\ req.privateKey.b58 = Bytes(32, "k1") /\ req.privateKey.b64 = Bytes(32, "k2")
    /\ sender = KeyOk(fromSeed(Seed("k1")))
    /\ resp = Reply(200, "none")

(***************************************************************************)
(* C11.  Every route of the EVM router (create, import by key, import by    *)
(* mnemonic, balance, send, token balance, token transfer): when the chain  *)
(* name of the request is not a key of the chain table, no provider call is *)
(* issued and the request ends in an error response.  The create route does *)
(* not read the chain, and the table lookup accepts 'constructor'.          *)
(***************************************************************************)
\* The request names a chain that the chain table does not configure.
\* A request to one of the seven routes with a chain name that is not a key of
\* the chain table (the health route takes no chain).
ChainNotConfigured ==
    chain = "evm" /\ op # "health" /\ ChainOrDefault(req.chain) \notin ChainNames

C11_UnknownChainFails ==
    ChainNotConfigured =>
      /\ calls = <<>>
      /\ signatures = 0
      /\ pc = "done" => resp.status \in {400, 500}

(***************************************************************************)
(* C12.  Every send: a request that lacks its key material, its destination *)
(* address or its amount issues no provider call, signs nothing, and ends   *)
(* in an error response.  The EVM send takes an absent amount for 'max' and *)
(* goes on to the balance fetch.                                            *)
(***************************************************************************)
\* The send request lacks the key material, the destination or the amount.
MissingField ==
    /\ op = "send"
    /\ \/ chain = "btc" /\ (req.privateKeyWIF = "none" \/ req.to = "none" \/ ~req.amount.given)
       \/ chain = "tatum" /\ (req.privateKey = "none" \/ req.to = "none" \/ ~req.amount.given)
       \/ chain = "sol" /\ (req.privateKey.form = "none" \/ req.to = "none"
                              \/ ~req.amount.given)
       \/ chain = "evm" /\ (req.privateKey = "none" \/ req.to = "none"
                              \/ req.amount.kind = "absent")
       \/ chain \in {"ada", "ada2"} /\ (req.mnemonic = "none" \/ req.to = "none"
                                          \/ ~req.amount.given)

C12_MissingFieldRejected ==
    MissingField =>
      /\ calls = <<>>
      /\ signatures = 0
      /\ pc = "done" => resp.status \in {400, 500}

(***************************************************************************)
(* C12, amended.  Every send: a request that lacks a field its handler      *)
(* requires issues no provider call, signs nothing, and ends with status    *)
(* 400.  The required fields are the key material, the destination address  *)
(* and the amount, except in the EVM send, where only the key material and  *)
(* the destination address are required.                                    *)
(***************************************************************************)
RequiredFieldMissing ==
    /\ MissingField
    /\ chain = "evm" => (req.privateKey = "none" \/ req.to = "none")

C12_RequiredFieldRejected ==
    RequiredFieldMissing =>
      /\ calls = <<>>
      /\ signatures = 0
      /\ pc = "done" => resp.status = 400

C12_Witness ==
    /\ chain = "sol" /\ op = "send"
    /\ req.privateKey.form # "none" /\ req.to # "none" /\ ~req.amount.given
    /\ pc = "done" /\ resp = Reply(400, "privateKey, to, amount required")
    /\ calls = <<>>

(***************************************************************************)
(* C13.  Every route: when a provider call fails, it is the last call of    *)
(* the request (no retry, no later call), nothing is signed after it, and   *)
(* the request ends at once in an error response.  The fee-rate lookup of   *)
(* the BTC send and the decimals query of the token balance catch their     *)
(* failure and go on with a default (10, 18).                               *)
(***************************************************************************)
C13_ProviderFailureEndsRequest ==
    \A i \in 1..Len(replies) :
       replies[i] = "fail" =>
         /\ i = Len(replies)
         /\ Len(calls) = i
         /\ pc = "done"
         /\ resp.status = 500

(***************************************************************************)
(* C14.  Two requests interleaved at their awaits.  No handler changes an   *)
(* object bound at module level, and a request that ran beside another one  *)
(* goes, when it runs alone and is given the same provider replies, to the  *)
(* end of its handler with the locals it ended with beside the other: the   *)
(* same key material, UTXO list, draft, calls and response.                 *)
(***************************************************************************)
\* A request that ran beside another has run again alone and is answered.
RanAlone == interleaved # NoFrame /\ pc = "done"

\* A request that runs again alone and is not answered yet can take a step
\* with what it was given before.
RunsAloneAsBefore == (interleaved # NoFrame /\ pc # "done") => ENABLED NextPair

C14_RequestsShareNoState ==
    /\ module = ModuleAtLoad
    /\ RunsAloneAsBefore
    /\ RanAlone => Frame = interleaved.own

\* Two BTC sends ran together, each suspended at its UTXO fetch, its fee-rate
\* lookup and its broadcast, and were given different UTXOs and fee rates; the
\* first has run again alone.
C14_Witness ==
    /\ RanAlone
    /\ interleaved.own.chain = "btc" /\ interleaved.beside.chain = "btc"
    /\ Len(interleaved.own.drawn) = 3 /\ Len(interleaved.beside.drawn) = 3
    /\ interleaved.own.rate # interleaved.beside.rate
    /\ interleaved.own.utxos # interleaved.beside.utxos
    /\ interleaved.own.resp.status = 200
    /\ psbt.finalized /\ psbt = interleaved.own.psbt

(***************************************************************************)
(* C15.  Every successful response of a create or import route, on every    *)
(* router, holds the address, the private key as text, and the private key  *)
(* as an array of bytes.  Only the Solana routes return the bytes; the      *)
(* Cardano routes and the EVM import by key return no private key at all.   *)
(***************************************************************************)
\* A create or import route has answered with a wallet.
WalletAnswered ==
    /\ op \in {"create", "import", "importMnemonic"}
    /\ pc = "done" /\ resp.status = 200

C15_ExportedKeyMaterial ==
    WalletAnswered =>
      /\ resp.body.address # "none"
      /\ resp.body.privateKey # "none"
      /\ Len(resp.body.secretKeyArray) > 0

(***************************************************************************)
(* C16.  exportKeypair and keypairFromPrivateKeyInput, as the Solana wallet *)
(* routes apply them: the secretKeyArray of an exported key pair, sent back *)
(* as an array input, passes the constructor's length and public-key check  *)
(* and gives a key pair whose public key is the exported publicKey.         *)
(***************************************************************************)
\* The array as a privateKey input
ArrayInput(b) == KeyInput("array", b, NoBytes, NoBytes, NoBytes)

C16_ExportImportRoundTrip ==
    (chain = "sol" /\ WalletAnswered) =>
      LET back == keypairFromPrivateKeyInput(ArrayInput(resp.body.secretKeyArray))
      IN  /\ back.ok
          /\ PublicKeyBase58(back.key) = resp.body.address
          /\ resp.body.address \in {"S1", "S2"}

\* An import from a base58 seed: the exported array is the 64-byte secret key
\* the library built from the 32 bytes.
C16_Witness ==
    /\ chain = "sol" /\ op = "import" /\ WalletAnswered
    /\ req.privateKey.form = "string" /\ req.privateKey.b58 = Bytes(32, "k1")
    /\ Len(resp.body.secretKeyArray) = 64
    /\ SubSeq(resp.body.secretKeyArray, 1, 32) = req.privateKey.b58
    /\ resp.body.address = "S1"

(***************************************************************************)
(* C17.  BTC and Cardano sends: every input of the transaction is one of    *)
(* the fetched UTXOs, no UTXO is an input twice, and the total used by the  *)
(* funds check and the change (sum, totalInput) is the sum of the values of *)
(* the UTXOs used, each counted once.                                       *)
(***************************************************************************)
DistinctIds(s) == \A i, j \in 1..Len(s) : i # j => s[i].id # s[j].id

\* The total of the fetched UTXOs whose id is in ids, each counted once.
RECURSIVE TotalOf(_, _)
TotalOf(fetched, ids) ==
    IF fetched = <<>> THEN 0
    ELSE (IF Head(fetched).id \in ids THEN Head(fetched).value ELSE 0)
         + TotalOf(Tail(fetched), ids)

IdsOf(s) == {s[i].id : i \in 1..Len(s)}

C17_UtxoUsedOnce ==
    /\ (op = "send" /\ BtcFundRan) =>
          /\ DistinctIds(chosen)
          /\ \A i \in 1..Len(chosen) :
                chosen[i].id \in 1..Len(utxos) /\ chosen[i] = utxos[chosen[i].id]
          /\ sum = TotalOf(utxos, IdsOf(chosen))
          /\ psbt.inputs # <<>> => psbt.inputs = chosen
          /\ psbt.outputs # <<>> =>
                psbt.outputs[2].value = TotalOf(utxos, IdsOf(psbt.inputs)) - amountSats - fee
    /\ (op = "send" /\ chain \in {"ada", "ada2"}) =>
          /\ DistinctIds(txInputs)
          /\ \A i \in 1..Len(txInputs) :
                /\ txInputs[i].id \in 1..Len(utxos)
                /\ utxos[txInputs[i].id].id = txInputs[i].id
                /\ txInputs[i].value = utxos[txInputs[i].id].value
          /\ totalInput = TotalOf(utxos, IdsOf(txInputs))

C17_Witness ==
    /\ op = "send" /\ chain = "ada" /\ pc = "awaitSubmit"
    /\ Len(utxos) = 3 /\ Len(txInputs) = 2
    /\ totalInput = 7500000

(***************************************************************************)
(* C18.  The BTC send goes through its stages in order, one at a time and   *)
(* never back: signer check, UTXO fetch, fee and funds check, signing of    *)
(* every chosen input, serialization, broadcast.  The UTXO fetch is issued  *)
(* only for a key that owns the sender address; the fee is computed only    *)
(* from fetched UTXOs; an input is signed only after the funds check        *)
(* passed; the transaction is serialized only with every input signed; the  *)
(* broadcast is issued only for a serialized transaction.                   *)
(***************************************************************************)
Range(s) == {s[i] : i \in 1..Len(s)}

\* How far the BTC handler has come.
BtcStage ==
    CASE pc = "start"          -> 0
      [] pc = "awaitUtxos"     -> 1
      [] pc = "awaitFeeRate"   -> 2
      [] pc = "haveRate"       -> 3
      [] pc = "feeAdjusted"    -> 4
      [] pc = "signing"        -> 5
      [] pc = "awaitBroadcast" -> 6
      [] OTHER                 -> 7

BtcStageOrder ==
    /\ "fetchUtxos" \in Range(calls) =>
          /\ WifValid(req.privateKeyWIF)
          /\ P2wpkhAddress(req.privateKeyWIF) = req.from
    /\ (fee # 0 \/ chosen # <<>>) =>
          /\ utxos # <<>>
          /\ Len(replies) >= 1 /\ replies[1] = "ok" /\ calls[1] = "fetchUtxos"
    /\ (signatures > 0 \/ psbt.outputs # <<>>) =>
          /\ chosen # <<>>
          /\ ~BtcInsufficient(sum, amountSats, fee)
          /\ psbt.inputs = chosen
    /\ psbt.finalized =>
          /\ psbt.signed = 1..Len(psbt.inputs)
          /\ signatures = Len(chosen)
          /\ psbt.outputs # <<>>
    /\ "broadcastTx" \in Range(calls) => psbt.finalized
    /\ ~psbt.finalized => signatures = Cardinality(psbt.signed)

C18_StagesInOrder ==
    [][ (chain = "btc" /\ op = "send") =>
          /\ BtcStageOrder'
          /\ BtcStage' >= BtcStage
          /\ (BtcStage' > BtcStage /\ pc' # "done") =>
                \/ BtcStage' = BtcStage + 1
                \/ (pc = "awaitUtxos" /\ pc' = "haveRate" /\ ~Falsy(req.feeRate))
          /\ BtcStage' = BtcStage => (pc = "signing" /\ signatures' = signatures + 1) ]_vars

C18_Witness ==
    /\ chain = "btc" /\ op = "send" /\ pc = "done" /\ resp.status = 200
    /\ Len(chosen) = 2 /\ signatures = 2 /\ psbt.finalized
    /\ calls = <<"fetchUtxos", "fetchFeeRate", "broadcastTx">>

(***************************************************************************)
(* C19.  Cardano send: the inputs of the draft are the sender's UTXOs taken *)
(* in ascending order of value until their total reaches amount + buffer:   *)
(* the inputs ascend in value, no unused UTXO is smaller than a used one,   *)
(* and the total reaches the target only with the last input.               *)
(***************************************************************************)
AdaTarget == amountLovelace + InputBuffer(chain)

C19_AscendingSelection ==
    (op = "send" /\ chain \in {"ada", "ada2"} /\ txInputs # <<>>) =>
       /\ \A i, j \in 1..Len(txInputs) : i < j => txInputs[i].value <= txInputs[j].value
       /\ \A k \in 1..Len(utxos) :
             (utxos[k].lovelace /\ utxos[k].id \notin IdsOf(txInputs)) =>
                \A i \in 1..Len(txInputs) : txInputs[i].value <= utxos[k].value
       /\ \A j \in 1..(Len(txInputs) - 1) : PrefixTotal(txInputs, j) < AdaTarget

(***************************************************************************)
(* C20.  BTC send, once the rate is set.  As claimed: a fee rate given by   *)
(* the caller is the rate and no lookup is made; otherwise the lookup is    *)
(* made and its rate is a whole number of at least 1; a failed lookup gives *)
(* rate 10 and does not end the request.                                    *)
(***************************************************************************)
\* The BTC handler has passed line 270.
BtcHasRate == chain = "btc" /\ op = "send" /\ utxos # <<>> /\ pc # "awaitFeeRate"

\* The rate after a lookup, and what a failed lookup leaves behind.
LookedUpRate ==
    /\ Len(calls) >= 2 /\ calls[2] = "fetchFeeRate"
    /\ rate.den = 1 /\ rate.num >= 1
    /\ replies[2] = "fail" =>
          /\ rate = Frac(FallbackFeeRate, 1)
          /\ pc = "haveRate" => resp = NoResp
          /\ resp.error = "provider error" =>
                \E i \in 1..Len(replies) : i # 2 /\ replies[i] = "fail"

CallerRate ==
    /\ rate = Frac(req.feeRate.num, req.feeRate.den)
    /\ "fetchFeeRate" \notin Range(calls)

C20_CallerRateUsed ==
    BtcHasRate => IF req.feeRate.given THEN CallerRate ELSE LookedUpRate

(***************************************************************************)
(* C20, amended.  The same with the caller's rate taken only when it is not *)
(* zero: a fee rate of 0 is treated as no fee rate, and the lookup is made. *)
(***************************************************************************)
C20_FeeRateChoice ==
    BtcHasRate => IF ~Falsy(req.feeRate) THEN CallerRate ELSE LookedUpRate

C20_Witness ==
    /\ BtcHasRate /\ ~req.feeRate.given
    /\ replies = <<"ok", "fail", "ok">>
    /\ rate = Frac(FallbackFeeRate, 1)
    /\ pc = "done" /\ resp.status = 200

(***************************************************************************)
(* C21.  The BTC send answers "insufficient funds" only when no ascending   *)
(* prefix of the fetched UTXOs covers the amount and the fee of a           *)
(* transaction with that many inputs.                                       *)
(***************************************************************************)
\* Some ascending prefix of the fetched UTXOs pays the amount and its fee.
BtcFundable ==
    \E k \in 1..Len(utxos) :
       PrefixTotal(SortByValue(utxos), k) >= amountSats + FeeOf[k, rate]

C21_InsufficientOnlyWhenShort ==
    (op = "send" /\ BtcFundRan /\ resp.error = "insufficient funds") => ~BtcFundable

(***************************************************************************)
(* C22.  EVM send with an absent or otherwise falsy amount, once balance,   *)
(* fee data and gas estimate are there: as for "max", the value sent is the *)
(* balance minus the gas cost, and when balance <= gas cost the request     *)
(* ends with 'balance too low for gas' and nothing is signed or submitted.  *)
(***************************************************************************)
\* !amount: the field is absent or is the number 0.
AmountFalsy == req.amount.kind = "absent" \/ (req.amount.kind = "num" /\ req.amount.num = 0)

C22_AbsentAmountIsMax ==
    (EvmResolved /\ AmountFalsy) =>
       IF balanceWei <= EvmG
       THEN /\ pc = "done"
            /\ resp = Reply(400, "balance too low for gas")
            /\ signatures = 0
            /\ "sendTransaction" \notin Range(calls)
       ELSE /\ valueWei = balanceWei - EvmG
            /\ calls[Len(calls)] = "sendTransaction"
            /\ signatures = 1
            /\ resp.status # 400

C22_Witness ==
    /\ EvmResolved /\ req.amount.kind = "absent"
    /\ balanceWei = 100 /\ EvmG = 20 /\ valueWei = 80
    /\ pc = "done" /\ resp.status = 200

(***************************************************************************)
(* C23.  BTC, Solana and Cardano sends: whenever something has been signed  *)
(* or handed to the network, the amount paid to the destination, in base    *)
(* units, is strictly positive.                                             *)
(***************************************************************************)
SignedOrSubmitted == op = "send" /\ (signatures > 0 \/ Broadcasts(calls) > 0)

C23_PositiveAmountPaid ==
    SignedOrSubmitted =>
       /\ chain = "btc" => amountSats > 0
       /\ chain = "sol" => lamports > 0
       /\ chain \in {"ada", "ada2"} => amountLovelace > 0

====
